---- MODULE Spec2Model ----
(***************************************************************************)
(* Secure Market Insights Gateway: bearer-token gate, sliding-window rate  *)
(* limiter, two-level Redis cache, request handlers of the gateway and the *)
(* retrying CoinMarketCap client of the fetcher service.                   *)
(*                                                                         *)
(* Time is an integer clock `now` (seconds).  A decorated endpoint is      *)
(* modelled as the guard of rate_limit.wrapper followed by the body of the *)
(* handler; how the framework binds the handler's arguments is not part of *)
(* the model.                                                              *)
(***************************************************************************)
EXTENDS Integers, Sequences, FiniteSets, TLC

\* ---------------------------------------------------------------- bounds
MaxTime == 3
MaxLimit == 2
MaxWindow == 2

\* gateway settings (environment-configurable), scaled to small values
rate_limit_requests == 2
rate_limit_window_seconds == 2
cache_ttl_seconds == 2
\* @rate_limit(max_calls=20) on get_insight, scaled
get_insight_max_calls == 3
\* request ids minted in one run
MaxIds == 2

Identities == {"tokA", "tokB"}
Tasks == {"w1", "w2"}
\* Python None: for an optional int argument, for an optional string
NoneInt == -1
None == "None"

\* number of check_limit calls made in a limiter run
MaxCalls == MaxLimit + 2

VARIABLES
    now,          \* time.time()
    requests,     \* TokenRateLimiter._requests : identity -> list of timestamps
    argLimit,     \* rate_limit argument of the check_limit calls of a limiter run
    argWindow,    \* time_limit argument of the check_limit calls of a limiter run
    task,         \* position of each concurrent check_limit call
    callLog,      \* history: outcome of every finished check_limit call per identity
    fPc,          \* fetcher: position of the fetch ("idle", "attempting", "done", "rejected")
    fSymbol,      \* fetcher: symbol of the fetch in progress
    fOutcomes,    \* fetcher: what the provider answered to each attempt so far
    fResult,      \* fetcher: what fetch_coin_data returned or raised
    redisConn,    \* RedisCache._redis is not None
    backend,      \* the Redis server: "up", "down", or "flaky" (any call may fail)
    redis,        \* keys held by the Redis server, by prefix (query:, result:)
    cacheOp,      \* the last operation called on the cache object and what it returned
    setLog,       \* history: the set calls on the cache object that returned True
    setCall,      \* a set call followed write by write: its arguments and position
    authOp,       \* the last header given to validate_authorization_header, and the result
    nextUuid,     \* number of the next uuid4 minted by create_insight
    resp,         \* the last request handled by the gateway, its response, the time it took
    creating      \* create_insight calls followed step by step: position and locals of each

rlvars == <<requests, argLimit, argWindow, task, callLog>>
fvars == <<fPc, fSymbol, fOutcomes, fResult>>
cvars == <<redisConn, backend, redis, cacheOp, setLog, setCall>>
gvars == <<authOp, nextUuid, resp, creating>>
vars == <<now, rlvars, fvars, cvars, gvars>>

\* what a limiter run leaves alone
notRL == <<fvars, cvars, gvars>>
\* what a direct call on the cache object leaves alone
notC == <<rlvars, fvars, gvars>>
\* what a fetcher run leaves alone
notF == <<now, rlvars, cvars, gvars>>

\* ------------------------------------------------------- rate limiter
\* Python's `x or default`: None and 0 are falsy
OrDefault(x, default) == IF x = NoneInt \/ x = 0 THEN default ELSE x

CleanOldRequests_ge(tsList, window_start) ==
    SelectSeq(tsList, LAMBDA ts : ts >= window_start)

CleanOldRequests_keepAll(tsList, window_start) == tsList

\* TokenRateLimiter._clean_old_requests: keep ts > window_start
CleanOldRequests(tsList, window_start) ==
    SelectSeq(tsList, LAMBDA ts : ts > window_start)

EffectiveLimit_setting(rate_limit) == rate_limit_requests

EffectiveWindow(time_limit) == OrDefault(time_limit, rate_limit_window_seconds)
EffectiveLimit(rate_limit) == OrDefault(rate_limit, rate_limit_requests)

LimitReached_gt(request_count, rate_limit) == request_count > rate_limit

\* the comparison of check_limit that rejects a call
LimitReached(request_count, rate_limit) == request_count >= rate_limit

Bucket_shared(token) == "tokA"

\* self._requests[token]: each token has a list of its own
Bucket(token) == token

OnReject_record(tsList, current_time) == Append(tsList, current_time)

\* check_limit raises before the append: a rejected call leaves the pruned
\* list as it is
OnReject(tsList, current_time) == tsList

\* HTTPException(429, headers={"Retry-After": str(time_limit)})
RateLimited(time_limit) ==
    [status |-> 429, retryAfter |-> ToString(time_limit)]
Admitted == [status |-> 200, retryAfter |-> None]

IdleTask == [pc |-> "idle", token |-> None, current_time |-> 0, request_count |-> 0]

EventLoopFree_threads(t) == TRUE

\* wrapper is a coroutine and check_limit contains no await: once a call has
\* started on the event loop no other call runs until it has returned
EventLoopFree(t) == \A u \in Tasks \ {t} : task[u].pc = "idle"

\* TokenRateLimiter.__init__, no call in progress
InitLimiter ==
    /\ requests = [i \in Identities |-> <<>>]
    /\ argLimit = NoneInt
    /\ argWindow = NoneInt
    /\ task = [t \in Tasks |-> IdleTask]
    /\ callLog = [i \in Identities |-> <<>>]

RECURSIVE SumLen(_, _)
SumLen(f, S) ==
    IF S = {} THEN 0
    ELSE LET x == CHOOSE y \in S : TRUE IN Len(f[x]) + SumLen(f, S \ {x})

\* calls started or finished in a limiter run
CallsMade ==
    SumLen(callLog, Identities) + Cardinality({t \in Tasks : task[t].pc # "idle"})

TickBody ==
    /\ now < MaxTime
    /\ now' = now + 1

\* check_limit, line 35: current_time = time.time()
RLCall(t, token) ==
    /\ task[t].pc = "idle"
    /\ EventLoopFree(t)
    /\ CallsMade < MaxCalls
    /\ task' = [task EXCEPT ![t] = [pc |-> "clean", token |-> token,
                                    current_time |-> now, request_count |-> 0]]
    /\ UNCHANGED <<now, requests, argLimit, argWindow, callLog, notRL>>

\* check_limit, lines 40-43: prune the identity's list
RLClean(t) ==
    /\ task[t].pc = "clean"
    /\ EventLoopFree(t)
    /\ LET tok == Bucket(task[t].token)
           tl == EffectiveWindow(argWindow)
       IN requests' = [requests EXCEPT ![tok] =
                          CleanOldRequests(requests[tok], task[t].current_time - tl)]
    /\ task' = [task EXCEPT ![t].pc = "count"]
    /\ UNCHANGED <<now, argLimit, argWindow, callLog, notRL>>

\* check_limit, line 46: request_count = len(self._requests[token])
RLCount(t) ==
    /\ task[t].pc = "count"
    /\ EventLoopFree(t)
    /\ task' = [task EXCEPT ![t].pc = "decide",
                            ![t].request_count = Len(requests[Bucket(task[t].token)])]
    /\ UNCHANGED <<now, requests, argLimit, argWindow, callLog, notRL>>

\* check_limit, lines 48-63: reject with 429 or append current_time
RLDecide(t) ==
    /\ task[t].pc = "decide"
    /\ EventLoopFree(t)
    /\ LET tok == task[t].token
           ct == task[t].current_time
           rl == EffectiveLimit(argLimit)
           tl == EffectiveWindow(argWindow)
       IN IF LimitReached(task[t].request_count, rl)
          THEN /\ callLog' = [callLog EXCEPT ![tok] =
                                Append(@, [t |-> ct] @@ RateLimited(tl))]
               /\ requests' = [requests EXCEPT ![Bucket(tok)] = OnReject(@, ct)]
          ELSE /\ requests' = [requests EXCEPT ![Bucket(tok)] = Append(@, ct)]
               /\ callLog' = [callLog EXCEPT ![tok] = Append(@, [t |-> ct] @@ Admitted)]
    /\ task' = [task EXCEPT ![t] = IdleTask]
    /\ UNCHANGED <<now, argLimit, argWindow, notRL>>

RLTick ==
    /\ TickBody
    /\ UNCHANGED <<rlvars, notRL>>

\* ------------------------------------------------- gateway: RedisCache
\* values as Python sees them: the type decides what a conversion does
PyFloat(x) == [type |-> "float", v |-> x]
PyNone == [type |-> "NoneType", v |-> 0]

\* json.dumps on a value: a float becomes a JSON number, None becomes null,
\* a str a JSON string; other types are not serializable
JsonSerializable(x) == x.type \in {"float", "str", "NoneType"}
JsonValue(x) ==
    IF x.type = "float" THEN [type |-> "number", v |-> x.v]
    ELSE IF x.type = "str" THEN [type |-> "string", v |-> x.v]
    ELSE [type |-> "null", v |-> 0]

\* json.loads on a JSON value (numbers written by json.dumps from a float
\* carry a fraction part and are read back as float)
PyValue(j) ==
    IF j.type = "number" THEN [type |-> "float", v |-> j.v]
    ELSE IF j.type = "string" THEN [type |-> "str", v |-> j.v]
    ELSE [type |-> "NoneType", v |-> 0]

\* symbol_data as returned by the Fetcher service
NoData == [symbol |-> "", quote |-> 0, valid |-> FALSE]
NoPayload == [data |-> NoData, fetched_at |-> PyNone]

JsonDumps_str(result_data) ==
    [data |-> result_data.data,
     fetched_at |-> [type |-> "string", v |-> result_data.fetched_at.v]]

\* json.dumps(result_data) / json.loads(result_json) on a cached payload
JsonDumps(result_data) ==
    [data |-> result_data.data, fetched_at |-> JsonValue(result_data.fetched_at)]
JsonLoads(result_json) ==
    [data |-> result_json.data, fetched_at |-> PyValue(result_json.fetched_at)]

\* str(uuid.uuid4()): the n-th identifier minted
Uuid_fixed(n) == "id1"

Uuid(n) == "id" \o ToString(n)
MintedIds == {Uuid(n) : n \in 1..MaxIds}
RequestIds == MintedIds \cup {"nonexistent-id"}

\* gateway/app/validator.py
GATEWAY_ALLOWED_SYMBOLS == {"bitcoin", "ethereum", "cardano", "solana", "polkadot"}
\* ", ".join(list)
RECURSIVE Join(_)
Join(list) ==
    IF list = <<>> THEN ""
    ELSE IF Len(list) = 1 THEN list[1]
    ELSE list[1] \o ", " \o Join(Tail(list))

\* ALLOWED_SYMBOLS of the gateway in the order of the list
GATEWAY_ALLOWED_LIST == <<"bitcoin", "ethereum", "cardano", "solana", "polkadot">>

\* symbol.lower().strip() on the symbols sent in the runs
LowerStrip(symbol) == IF symbol = " Bitcoin" THEN "bitcoin" ELSE symbol

\* whitelisted symbols the runs ask for, after normalisation
AskedSymbols == {"bitcoin"}
\* symbols the direct calls on the cache object use
CachedSymbols == {"bitcoin"}

\* create_insight: query_params = f"symbol={symbol}"
QueryParams(symbol) == "symbol=" \o symbol
Fingerprints == {QueryParams(sy) : sy \in AskedSymbols}

\* RedisCache._get_query_key / _get_result_key
GetQueryKey(query_params) == "query:" \o query_params
GetResultKey(request_id) == "result:" \o request_id

QueryKeys == {GetQueryKey(fp) : fp \in Fingerprints}
ResultKeys == {GetResultKey(id) : id \in RequestIds}

\* an absent key of each prefix
NoAlias == [value |-> "", expires |-> 0]
NoPayloadKey == [value |-> NoPayload, expires |-> 0]
NoAliases == [k \in QueryKeys |-> NoAlias]
NoPayloads == [k \in ResultKeys |-> NoPayloadKey]
\* keys that other users of the Redis server hold, with their values ("": no
\* such key); they match neither query:* nor result:*
OtherKeys == {"session:abc"}
ExternalKeys == [k \in OtherKeys |-> "x"]
EmptyRedis == [query |-> NoAliases, result |-> NoPayloads, other |-> ExternalKeys]

\* a key is served until its TTL has run out
Live(entry, t) == t < entry.expires

\* the server drops expired keys
Purge(r, t) ==
    [query |-> [k \in QueryKeys |-> IF Live(r.query[k], t) THEN r.query[k] ELSE NoAlias],
     result |-> [k \in ResultKeys |-> IF Live(r.result[k], t) THEN r.result[k] ELSE NoPayloadKey],
     other |-> r.other]

\* redis SETEX key ttl value
SetEx_late(t, ttl, value) == [value |-> value, expires |-> t + ttl + 1]

SetEx(t, ttl, value) == [value |-> value, expires |-> t + ttl]

AfterGet_touch(r, t) ==
    [r EXCEPT !.query = [k \in QueryKeys |->
                            IF Live(r.query[k], t)
                            THEN [r.query[k] EXCEPT !.expires = t + cache_ttl_seconds]
                            ELSE r.query[k]],
              !.result = [k \in ResultKeys |->
                            IF Live(r.result[k], t)
                            THEN [r.result[k] EXCEPT !.expires = t + cache_ttl_seconds]
                            ELSE r.result[k]]]

\* self._redis.get(key) is a plain read: the server's keys, values and
\* expiry times after the lookups of a handler are what they were before
AfterGet(r, t) == r

\* outcomes of one backend call in a given state of the server
CallOutcomes(b) == IF b = "up" THEN {TRUE} ELSE IF b = "down" THEN {FALSE} ELSE BOOLEAN

\* what get_by_request_id returns: None (hit = FALSE) or the decoded dict
Miss == [hit |-> FALSE, data |-> NoPayload, failed |-> FALSE, raised |-> FALSE]

\* RedisCache.get_by_request_id; ok1: the GET reaches the server
CacheGetByRequestId(conn, r, request_id, t, ok1) ==
    IF ~conn THEN [Miss EXCEPT !.failed = TRUE]
    ELSE IF ~ok1 THEN [Miss EXCEPT !.failed = TRUE]
    ELSE LET e == r.result[GetResultKey(request_id)]
         IN IF ~Live(e, t) THEN Miss
            ELSE [hit |-> TRUE, data |-> JsonLoads(e.value), failed |-> FALSE,
                  raised |-> FALSE]

\* what get returns: None (found = FALSE) or the tuple (result_data, request_id)
NotFound == [found |-> FALSE, result_data |-> Miss, request_id |-> "", failed |-> FALSE,
             raised |-> FALSE]

CacheGet_uncaught(conn, r, query_params, t, ok1, ok2) ==
    [found |-> FALSE, result_data |-> Miss, request_id |-> "", failed |-> TRUE,
     raised |-> TRUE]

\* RedisCache.get; ok1, ok2: the two GETs reach the server
CacheGet(conn, r, query_params, t, ok1, ok2) ==
    IF ~conn THEN [NotFound EXCEPT !.failed = TRUE]
    ELSE IF ~ok1 THEN [NotFound EXCEPT !.failed = TRUE]
    ELSE LET a == r.query[GetQueryKey(query_params)]
         IN IF ~Live(a, t) THEN NotFound
            ELSE LET res == CacheGetByRequestId(conn, r, a.value, t, ok2)
                 IN [found |-> TRUE, result_data |-> res, request_id |-> a.value,
                     failed |-> res.failed, raised |-> res.raised]

\* set(..., ttl=None): ttl = settings.cache_ttl_seconds
EffectiveTtl(ttl) == IF ttl = NoneInt THEN cache_ttl_seconds ELSE ttl

SetWrites_aliasFirst(query_params, request_id, result_data, ttl) ==
    <<[kind |-> "alias", key |-> GetQueryKey(query_params), id |-> request_id,
       payload |-> NoPayload, ttl |-> ttl],
      [kind |-> "payload", key |-> GetResultKey(request_id), id |-> request_id,
       payload |-> JsonDumps(result_data), ttl |-> ttl]>>

\* the two SETEX commands of RedisCache.set in the order they are issued:
\* step 1 the payload under result:<request_id>, step 2 the alias under
\* query:<query_params>
SetWrites(query_params, request_id, result_data, ttl) ==
    <<[kind |-> "payload", key |-> GetResultKey(request_id), id |-> request_id,
       payload |-> JsonDumps(result_data), ttl |-> ttl],
      [kind |-> "alias", key |-> GetQueryKey(query_params), id |-> request_id,
       payload |-> NoPayload, ttl |-> ttl]>>

ApplyWrite_keepFirst(r, w, t) ==
    IF w.kind = "payload"
    THEN [r EXCEPT !.result[w.key] = SetEx(t, w.ttl, w.payload)]
    ELSE IF Live(r.query[w.key], t) THEN r
    ELSE [r EXCEPT !.query[w.key] = SetEx(t, w.ttl, w.id)]

\* the server executes one SETEX at time t
ApplyWrite(r, w, t) ==
    IF w.kind = "payload"
    THEN [r EXCEPT !.result[w.key] = SetEx(t, w.ttl, w.payload)]
    ELSE [r EXCEPT !.query[w.key] = SetEx(t, w.ttl, w.id)]

CacheSet_dropOld(conn, r, query_params, request_id, result_data, ttl, t, d, ok1, ok2) ==
    IF ~conn \/ ~ok1 \/ ~ok2
    THEN [ok |-> FALSE, redis |-> r, failed |-> TRUE, raised |-> FALSE]
    ELSE [ok |-> TRUE,
          redis |-> [r EXCEPT !.result[GetResultKey(r.query[GetQueryKey(query_params)].value)] =
                                  NoPayloadKey,
                              !.result[GetResultKey(request_id)] =
                                  SetEx(t, ttl, JsonDumps(result_data)),
                              !.query[GetQueryKey(query_params)] =
                                  SetEx(t + d, ttl, request_id)],
          failed |-> FALSE, raised |-> FALSE]

\* RedisCache.set; the first write is made at t, the second at t + d
CacheSet(conn, r, query_params, request_id, result_data, ttl, t, d, ok1, ok2) ==
    IF ~conn THEN [ok |-> FALSE, redis |-> r, failed |-> TRUE, raised |-> FALSE]
    ELSE IF ~JsonSerializable(result_data.fetched_at)
    THEN [ok |-> FALSE, redis |-> r, failed |-> TRUE, raised |-> FALSE]
    ELSE IF ~ok1 THEN [ok |-> FALSE, redis |-> r, failed |-> TRUE, raised |-> FALSE]
    ELSE LET writes == SetWrites(query_params, request_id, result_data, ttl)
             r1 == ApplyWrite(r, writes[1], t)
         IN IF ~ok2 THEN [ok |-> FALSE, redis |-> r1, failed |-> TRUE, raised |-> FALSE]
            ELSE [ok |-> TRUE, redis |-> ApplyWrite(r1, writes[2], t + d),
                  failed |-> FALSE, raised |-> FALSE]

\* RedisCache.delete; ok1: the GET, ok2: the DEL
CacheDelete(conn, r, query_params, t, ok1, ok2) ==
    IF ~conn THEN [ok |-> FALSE, redis |-> r, failed |-> TRUE, raised |-> FALSE]
    ELSE IF ~ok1 THEN [ok |-> FALSE, redis |-> r, failed |-> TRUE, raised |-> FALSE]
    ELSE LET a == r.query[GetQueryKey(query_params)]
         IN IF ~Live(a, t) THEN [ok |-> FALSE, redis |-> r, failed |-> FALSE, raised |-> FALSE]
            ELSE IF ~ok2 THEN [ok |-> FALSE, redis |-> r, failed |-> TRUE, raised |-> FALSE]
            ELSE [ok |-> TRUE,
                  redis |-> [r EXCEPT !.query[GetQueryKey(query_params)] = NoAlias,
                                      !.result[GetResultKey(a.value)] = NoPayloadKey],
                  failed |-> FALSE, raised |-> FALSE]

LiveKeys(r, t) ==
    Cardinality({k \in QueryKeys : Live(r.query[k], t)})
    + Cardinality({k \in ResultKeys : Live(r.result[k], t)})

CacheClear_flushAll(conn, r, t, ok1, ok2) ==
    IF ~conn \/ ~ok1 \/ ~ok2
    THEN [count |-> 0, redis |-> r, failed |-> TRUE, raised |-> FALSE]
    ELSE [count |-> LiveKeys(r, t) + Cardinality({k \in OtherKeys : r.other[k] # ""}),
          redis |-> [query |-> NoAliases, result |-> NoPayloads,
                     other |-> [k \in OtherKeys |-> ""]],
          failed |-> FALSE, raised |-> FALSE]

\* RedisCache.clear; ok1: the two scans, ok2: the DEL of the keys the scans
\* for query:* and result:* returned
CacheClear(conn, r, t, ok1, ok2) ==
    IF ~conn THEN [count |-> 0, redis |-> r, failed |-> TRUE, raised |-> FALSE]
    ELSE IF ~ok1 THEN [count |-> 0, redis |-> r, failed |-> TRUE, raised |-> FALSE]
    ELSE IF LiveKeys(r, t) = 0 THEN [count |-> 0, redis |-> r, failed |-> FALSE, raised |-> FALSE]
    ELSE IF ~ok2 THEN [count |-> 0, redis |-> r, failed |-> TRUE, raised |-> FALSE]
    ELSE [count |-> LiveKeys(r, t),
          redis |-> [r EXCEPT !.query = NoAliases, !.result = NoPayloads],
          failed |-> FALSE, raised |-> FALSE]

CacheHealthCheck_reconnect(conn, ok1) ==
    IF ~ok1 THEN [ok |-> FALSE, failed |-> TRUE, raised |-> FALSE]
    ELSE [ok |-> TRUE, failed |-> FALSE, raised |-> FALSE]

\* RedisCache.health_check; ok1: the PING
CacheHealthCheck(conn, ok1) ==
    IF ~conn THEN [ok |-> FALSE, failed |-> TRUE, raised |-> FALSE]
    ELSE IF ~ok1 THEN [ok |-> FALSE, failed |-> TRUE, raised |-> FALSE]
    ELSE [ok |-> TRUE, failed |-> FALSE, raised |-> FALSE]

NoOp == [op |-> "none", arg |-> "", found |-> FALSE, hit |-> FALSE, ok |-> FALSE, count |-> 0,
         request_id |-> "", data |-> NoPayload, failed |-> FALSE, changed |-> FALSE,
         raised |-> FALSE]

\* no set call has returned True
NoSet == [done |-> FALSE, fp |-> "", payload |-> NoPayload, at |-> 0, ttl |-> 0,
          superseded |-> FALSE]
NoSets == [id \in MintedIds |-> NoSet]

\* no set call is being followed
NoSetCall == [pc |-> "idle", fp |-> "", id |-> "", payload |-> NoPayload, ttl |-> 0,
              at |-> 0, issued |-> {}]

\* RedisCache._connect: the PING at construction decides self._redis for good
InitCache ==
    /\ backend \in {"up", "down", "flaky"}
    /\ redisConn \in CallOutcomes(backend)
    /\ redis = EmptyRedis
    /\ cacheOp = NoOp
    /\ setLog = NoSets
    /\ setCall = NoSetCall

\* a cache object constructed while the server was reachable
InitCacheUp ==
    /\ backend = "up"
    /\ redisConn = TRUE
    /\ redis = EmptyRedis
    /\ cacheOp = NoOp
    /\ setLog = NoSets
    /\ setCall = NoSetCall

\* ------------------------------------------- fetcher: CoinMarketCap client
\* fetcher/app/dependencies/validator.py: keys of ALLOWED_SYMBOLS
FETCHER_ALLOWED_SYMBOLS == {"bitcoin", "ethereum", "cardano", "solana"}

\* what the provider can answer to one attempt
ProviderStatuses == {200, 400, 401, 403, 404, 429, 500, 503}
\* JSON body of a 2xx answer: data[symbol] is absent, an empty object, or an
\* object whose self_reported_market_cap and self_reported_circulating_supply
\* are a number or absent/null (None)
FieldValues == {NoneInt, 0, 7}
NoBody == [entry |-> "absent", market_cap |-> NoneInt, supply |-> NoneInt]
ProviderBodies ==
    {NoBody, [NoBody EXCEPT !.entry = "empty"]}
    \cup {[entry |-> "object", market_cap |-> m, supply |-> c] :
             m \in FieldValues, c \in FieldValues}
ProviderOutcomes ==
    {[kind |-> "response", status |-> 200, body |-> b] : b \in ProviderBodies}
    \cup {[kind |-> "response", status |-> st, body |-> NoBody] :
             st \in ProviderStatuses \ {200}}
    \cup {[kind |-> k, status |-> 0, body |-> NoBody] :
             k \in {"connect_error", "timeout"}}

Is4xx(o) == o.kind = "response" /\ o.status >= 400 /\ o.status < 500
Is5xx(o) == o.kind = "response" /\ o.status >= 500
IsTransportFailure(o) == o.kind \in {"connect_error", "timeout"}

\* client.get raises httpx.RequestError; response.raise_for_status() raises
\* httpx.HTTPStatusError for every 4xx and 5xx answer
AttemptException(o) ==
    IF o.kind # "response" THEN "RequestError"
    ELSE IF o.status >= 400 THEN "HTTPStatusError"
    ELSE "none"

\* retry=retry_if_exception_type((httpx.HTTPStatusError, httpx.RequestError))
RetryIf(exc) == exc \in {"HTTPStatusError", "RequestError"}

StopAfterAttempt_two(attempt_number) == attempt_number >= 2

StopAfterAttempt_four(attempt_number) == attempt_number >= 4

\* stop=stop_after_attempt(3)
StopAfterAttempt(attempt_number) == attempt_number >= 3

\* no CryptoInsight is returned
NoInsight == [symbol |-> "", market_cap |-> NoneInt, circulating_suply |-> NoneInt]

\* raise HTTPException(status_code, detail)
Raise(status, detail) == [status |-> status, detail |-> detail, insight |-> NoInsight]

MapStatusError_passthrough(status) == Raise(status, "Upstream API error")

\* fetch_coin_data, except httpx.HTTPStatusError
MapStatusError(status) ==
    IF status = 400 THEN Raise(400, "Invalid request")
    ELSE IF status = 401 THEN Raise(503, "Upstream API authentication failed")
    ELSE IF status = 404 THEN Raise(404, "not found")
    ELSE Raise(503, "Upstream API unavailable")

\* fetch_coin_data, except httpx.RequestError
MapRequestError == Raise(503, "Failed to connect to upstream API")

ParseResponse_lenient(symbol, body) ==
    IF body.entry # "object" THEN Raise(500, "Failed to parse upstream API response")
    ELSE [status |-> 200, detail |-> "",
          insight |-> [symbol |-> symbol, market_cap |-> body.market_cap,
                       circulating_suply |-> body.supply]]

\* fetch_coin_data, lines 108-139 and except (ValueError, KeyError):
\* `not crypto_data` holds for a missing entry and for an empty object
ParseResponse(symbol, body) ==
    IF body.entry # "object" THEN Raise(500, "Failed to parse upstream API response")
    ELSE IF body.supply = NoneInt \/ body.market_cap = NoneInt
    THEN Raise(500, "Failed to parse upstream API response")
    ELSE [status |-> 200, detail |-> "",
          insight |-> [symbol |-> symbol, market_cap |-> body.market_cap,
                       circulating_suply |-> body.supply]]

NoResult == [status |-> 0, detail |-> "pending", insight |-> NoInsight]

\* keys of the fetcher's ALLOWED_SYMBOLS in the order of the dict
FETCHER_ALLOWED_LIST == <<"bitcoin", "ethereum", "cardano", "solana">>

\* fetcher validate_symbol: the normalised symbol, or HTTPException(400)
FetcherValidateSymbol(symbol) ==
    IF LowerStrip(symbol) \notin FETCHER_ALLOWED_SYMBOLS
    THEN [ok |-> FALSE, symbol |-> LowerStrip(symbol),
          error |-> Raise(400, "Invalid symbol. Allowed symbols: "
                                  \o Join(FETCHER_ALLOWED_LIST))]
    ELSE [ok |-> TRUE, symbol |-> LowerStrip(symbol), error |-> NoResult]

\* what fetch_coin_data makes of the last attempt's outcome
FetchResult(symbol, o) ==
    IF AttemptException(o) = "HTTPStatusError" THEN MapStatusError(o.status)
    ELSE IF AttemptException(o) = "RequestError" THEN MapRequestError
    ELSE ParseResponse(symbol, o.body)

Attempts == Len(fOutcomes)

InitFetcher ==
    /\ fPc = "idle"
    /\ fSymbol = None
    /\ fOutcomes = <<>>
    /\ fResult = NoResult

\* GET /v1/fetch/symbol is called: validate_symbol raises (the request is
\* "rejected"), or fetch_coin_data(validated_symbol) is entered
FetchStart(symbol) ==
    /\ fPc \in {"idle", "done", "rejected"}
    /\ \E v \in {FetcherValidateSymbol(symbol)} :
          /\ fPc' = IF v.ok THEN "attempting" ELSE "rejected"
          /\ fSymbol' = v.symbol
          /\ fResult' = v.error
    /\ fOutcomes' = <<>>
    /\ UNCHANGED notF

\* one pass of _fetch_with_retry: the GET, then tenacity's decision
FetchAttempt(o) ==
    /\ fPc = "attempting"
    /\ fOutcomes' = Append(fOutcomes, o)
    /\ IF AttemptException(o) # "none" /\ RetryIf(AttemptException(o))
          /\ ~StopAfterAttempt(Attempts + 1)
       THEN /\ fPc' = "attempting"
            /\ fResult' = fResult
       ELSE /\ fPc' = "done"
            /\ fResult' = FetchResult(fSymbol, o)
    /\ UNCHANGED <<fSymbol, notF>>

\* ------------------------------------------------ gateway: authentication
\* settings.api_token
api_token == "tokA"

\* an Authorization header: absent, or its text split at whitespace into
\* parts; the first part (the scheme) is kept as its sequence of characters
NoHeader == [present |-> FALSE, parts |-> <<>>]
Header(parts) == [present |-> TRUE, parts |-> parts]
Bearer == <<"B", "e", "a", "r", "e", "r">>
bearer == <<"b", "e", "a", "r", "e", "r">>
Headers == {NoHeader, Header(<<Bearer, "tokA">>), Header(<<Bearer, "tokB">>),
            Header(<<<<"B", "a", "s", "i", "c">>, "tokA">>)}

\* str.lower on one character
LowerChar(c) ==
    IF c = "B" THEN "b" ELSE IF c = "E" THEN "e" ELSE IF c = "A" THEN "a"
    ELSE IF c = "R" THEN "r" ELSE IF c = "S" THEN "s" ELSE IF c = "I" THEN "i"
    ELSE IF c = "C" THEN "c" ELSE c
Lower(chars) == [k \in 1..Len(chars) |-> LowerChar(chars[k])]

\* scheme.lower().replace(":", ""): every colon is removed
LowerNoColon(scheme) == SelectSeq(Lower(scheme), LAMBDA c : c # ":")

Unauthorized_noHeader(detail) ==
    [ok |-> FALSE, token |-> None, status |-> 401, detail |-> detail, header |-> ""]

\* HTTPException(401, detail, headers={"WWW-Authenticate": "Bearer"})
Unauthorized(detail) ==
    [ok |-> FALSE, token |-> None, status |-> 401, detail |-> detail,
     header |-> "WWW-Authenticate: Bearer"]

\* validate_authorization_header with _check_header_exists and
\* _validate_header_scheme
ValidateAuthorizationHeader(h) ==
    IF ~h.present \/ h.parts = <<>> THEN Unauthorized("Missing Authorization header")
    ELSE IF Len(h.parts) # 2 THEN Unauthorized("Invalid Authorization header format")
    ELSE IF LowerNoColon(h.parts[1]) # bearer
         THEN Unauthorized("Invalid authorization scheme")
    ELSE IF h.parts[2] = "" THEN Unauthorized("Empty token provided")
    ELSE IF h.parts[2] # api_token THEN Unauthorized("Invalid authentication token")
    ELSE [ok |-> TRUE, token |-> h.parts[2], status |-> 200, detail |-> "",
          header |-> ""]

\* no header has been validated
NoAuthOp == [header |-> NoHeader, result |-> Unauthorized("")]

\* schemes and header values the validator is called with
Colon(scheme) == Append(scheme, ":")
Schemes ==
    {Bearer, bearer, <<"B", "E", "A", "R", "E", "R">>, Colon(Bearer), Colon(bearer),
     Colon(Colon(Bearer)), <<":">> \o Bearer, <<"B", "e", "a", ":", "r", "e", "r">>,
     <<"B", "a", "s", "i", "c">>, <<"B", "e", "a", "r">>, Append(Bearer, ";"),
     Append(Bearer, "r"), <<":">>, Colon(<<"B", "a", "s", "i", "c">>),
     Colon(<<"B", "E", "A", "R", "E", "R">>), Append(bearer, ";")}
Tokens == {"tokA", "tokB", "TOKA"}
AuthHeaders ==
    {NoHeader, Header(<<>>)}
    \cup {Header(<<sc>>) : sc \in Schemes}
    \cup {Header(<<sc, tk>>) : sc \in Schemes, tk \in Tokens}
    \cup {Header(<<sc, tk, "x">>) : sc \in Schemes, tk \in Tokens}

\* validate_authorization_header(authorization_header) is called
Authenticate(h) ==
    /\ authOp' = [header |-> h, result |-> ValidateAuthorizationHeader(h)]
    /\ UNCHANGED <<now, rlvars, fvars, cvars, nextUuid, resp, creating>>

\* the verify_token dependency of the two insight endpoints
VerifyToken(h) == ValidateAuthorizationHeader(h)

\* ---------------------------------------------- gateway: rate_limit.wrapper
\* TokenRateLimiter.check_limit as one uninterrupted call at time t
CheckLimit(reqs, token, rate_limit, time_limit, t) ==
    LET tl == EffectiveWindow(time_limit)
        cleaned == CleanOldRequests(reqs[Bucket(token)], t - tl)
        rl == EffectiveLimit(rate_limit)
    IN IF LimitReached(Len(cleaned), rl)
       THEN [ok |-> FALSE, requests |-> [reqs EXCEPT ![Bucket(token)] = OnReject(cleaned, t)],
             status |-> 429, detail |-> "Rate limit exceeded",
             header |-> "Retry-After: " \o ToString(tl)]
       ELSE [ok |-> TRUE, requests |-> [reqs EXCEPT ![Bucket(token)] = Append(cleaned, t)],
             status |-> 200, detail |-> "", header |-> ""]

Wrapper_noRecord(reqs, token, max_calls, time_frame, t) ==
    IF token = None
    THEN [ok |-> FALSE, requests |-> reqs, status |-> 500,
          detail |-> "Rate limiting configuration error", header |-> ""]
    ELSE [CheckLimit(reqs, token, max_calls, time_frame, t) EXCEPT !.requests = reqs]

\* rate_limit(max_calls, time_frame).wrapper up to the call of the endpoint
Wrapper(reqs, token, max_calls, time_frame, t) ==
    IF token = None
    THEN [ok |-> FALSE, requests |-> reqs, status |-> 500,
          detail |-> "Rate limiting configuration error", header |-> ""]
    ELSE CheckLimit(reqs, token, max_calls, time_frame, t)

\* ------------------------------------------------ gateway: Fetcher service
Quotes == {1, 2}

\* what the Fetcher service can answer to GET /v1/fetch/symbol?symbol=...
FetcherReplies(symbol) ==
    {[kind |-> "status", status |-> 400, data |-> NoData],
     [kind |-> "timeout", status |-> 0, data |-> NoData],
     [kind |-> "connect_error", status |-> 0, data |-> NoData]}
    \cup (IF symbol \notin FETCHER_ALLOWED_SYMBOLS THEN {}
          ELSE {[kind |-> "ok", status |-> 200,
                 data |-> [symbol |-> symbol, quote |-> q, valid |-> TRUE]] :
                    q \in Quotes}
               \cup {[kind |-> "ok", status |-> 200,
                      data |-> [symbol |-> symbol, quote |-> 1, valid |-> FALSE]]}
               \cup {[kind |-> "status", status |-> st, data |-> NoData] :
                        st \in {404, 503}})

\* the fetch would hand back data that InsightData accepts
FetchWouldSucceed(reply) == reply.kind = "ok" /\ reply.data.valid

\* the Fetcher's GET /v1/fetch/symbol route hands on what fetch_coin_data
\* returned or raised: the reply the gateway receives for a client result
FetchRoute(result) ==
    IF result.status = 200
    THEN [kind |-> "ok", status |-> 200,
          data |-> [symbol |-> result.insight.symbol, quote |-> result.insight.market_cap,
                    valid |-> TRUE]]
    ELSE [kind |-> "status", status |-> result.status, data |-> NoData]

\* fetch_symbol_data: the data, or the HTTPException raised
FetchSymbolData(reply) ==
    IF reply.kind = "ok" THEN [ok |-> TRUE, data |-> reply.data, status |-> 200]
    ELSE IF reply.kind = "timeout" THEN [ok |-> FALSE, data |-> NoData, status |-> 504]
    ELSE IF reply.kind = "status"
         THEN [ok |-> FALSE, data |-> NoData,
               status |-> IF reply.status >= 500 THEN 503 ELSE reply.status]
    ELSE [ok |-> FALSE, data |-> NoData, status |-> 503]

\* ----------------------------------------------- gateway: insight endpoints
\* symbols sent by clients in the runs
RequestSymbols == {" Bitcoin", "dogecoin"}

\* gateway validate_symbol
ValidateSymbol(symbol) ==
    IF LowerStrip(symbol) \notin GATEWAY_ALLOWED_SYMBOLS
    THEN [ok |-> FALSE, symbol |-> LowerStrip(symbol)]
    ELSE [ok |-> TRUE, symbol |-> LowerStrip(symbol)]

PyDatetime(x) == [type |-> "datetime", v |-> x]

\* datetime.fromisoformat: a str is parsed, anything else raises TypeError
FromIsoFormat(x) ==
    IF x.type = "str" THEN [ok |-> TRUE, value |-> PyDatetime(x.v)]
    ELSE [ok |-> FALSE, value |-> PyNone]

\* the part of a response set by the handler body
Body(status, detail, request_id, symbol, cached, data, fetched_at) ==
    [status |-> status, detail |-> detail, request_id |-> request_id,
     symbol |-> symbol, cached |-> cached, data |-> data, fetched_at |-> fetched_at]

ErrorBody(status, detail) == Body(status, detail, "", "", FALSE, NoData, PyNone)

\* an exception that is not an HTTPException: general_exception_handler
InternalServerError == ErrorBody(500, "Internal server error")

\* what a handler did besides answering
Effects(reads, writes, fetches, failed) ==
    [reads |-> reads, writes |-> writes, fetches |-> fetches, failed |-> failed]
NoEffects == Effects(0, 0, 0, FALSE)

InsightDataAccepts_any(symbol_data) == TRUE

\* InsightData(**symbol_data) does not raise: the required fields are there
InsightDataAccepts(symbol_data) == symbol_data.valid

InvalidSymbol_afterLookup ==
    [body |-> ErrorBody(400, "Invalid symbol. Allowed symbols: "
                                \o Join(GATEWAY_ALLOWED_LIST)),
     effects |-> Effects(1, 0, 0, FALSE)]

\* validate_symbol raises HTTPException(400) at the first statement of
\* create_insight, before the cache and the Fetcher service are used
InvalidSymbol ==
    [body |-> ErrorBody(400, "Invalid symbol. Allowed symbols: "
                                \o Join(GATEWAY_ALLOWED_LIST)),
     effects |-> NoEffects]

\* the return statements of create_insight and get_insight for cached data:
\* cached_data.get("fetched_at") on None raises AttributeError
CachedResponse(result_data, request_id, symbol) ==
    IF ~result_data.hit THEN InternalServerError
    ELSE LET fetched_at == FromIsoFormat(result_data.data.fetched_at)
         IN IF ~fetched_at.ok THEN InternalServerError
            ELSE IF ~result_data.data.data.valid THEN InternalServerError
            ELSE Body(200, "", request_id, symbol, TRUE, result_data.data.data,
                      fetched_at.value)

\* body of create_insight; oks: outcomes of the backend calls, d: the time
\* between the two writes of cache.set
CreateInsight(conn, r, uuid, rawSymbol, reply, t, d, oks) ==
    LET v == ValidateSymbol(rawSymbol)
        query_params == QueryParams(v.symbol)
        cached_result == CacheGet(conn, r, query_params, t, oks[1], oks[2])
        request_id == Uuid(uuid)
        fetched == FetchSymbolData(reply)
        cache_data == [data |-> fetched.data, fetched_at |-> PyFloat(t)]
        stored == CacheSet(conn, r, query_params, request_id, cache_data,
                           EffectiveTtl(NoneInt), t, d, oks[3], oks[4])
    IN IF ~v.ok
       THEN [body |-> InvalidSymbol.body, redis |-> r, uuid |-> uuid,
             effects |-> InvalidSymbol.effects, elapsed |-> 0]
       ELSE IF cached_result.raised
       THEN [body |-> InternalServerError, redis |-> r, uuid |-> uuid,
             effects |-> Effects(1, 0, 0, TRUE), elapsed |-> 0]
       ELSE IF cached_result.found
       THEN [body |-> CachedResponse(cached_result.result_data,
                                     cached_result.request_id, v.symbol),
             redis |-> AfterGet(r, t), uuid |-> uuid,
             effects |-> Effects(1, 0, 0, cached_result.failed), elapsed |-> 0]
       ELSE IF ~fetched.ok
       THEN [body |-> ErrorBody(fetched.status, "Fetcher service error"),
             redis |-> r, uuid |-> uuid + 1,
             effects |-> Effects(1, 0, 1, cached_result.failed), elapsed |-> 0]
       ELSE IF ~InsightDataAccepts(fetched.data)
       THEN [body |-> ErrorBody(500, "Invalid data format from Fetcher service"),
             redis |-> r, uuid |-> uuid + 1,
             effects |-> Effects(1, 0, 1, cached_result.failed), elapsed |-> 0]
       ELSE IF stored.raised
       THEN [body |-> InternalServerError, redis |-> stored.redis, uuid |-> uuid + 1,
             effects |-> Effects(1, 1, 1, TRUE), elapsed |-> 0]
       ELSE [body |-> Body(200, "", request_id, v.symbol, FALSE, fetched.data,
                           PyDatetime(t)),
             redis |-> stored.redis, uuid |-> uuid + 1,
             effects |-> Effects(1, 1, 1, cached_result.failed \/ stored.failed),
             elapsed |-> IF stored.ok THEN d ELSE 0]

\* body of get_insight
GetInsightBody(conn, r, request_id, t, ok1) ==
    LET cached_data == CacheGetByRequestId(conn, r, request_id, t, ok1)
    IN IF cached_data.raised
       THEN [body |-> InternalServerError, effects |-> Effects(1, 0, 0, TRUE)]
       ELSE IF ~cached_data.hit
       THEN [body |-> ErrorBody(404, "No cached insights found"),
             effects |-> Effects(1, 0, 0, cached_data.failed)]
       ELSE [body |-> CachedResponse(cached_data, request_id,
                                     cached_data.data.data.symbol),
             effects |-> Effects(1, 0, 0, cached_data.failed)]

\* a request as the gateway saw it, with its response
Response(endpoint, asked, auth, limit, body, effects, upstream) ==
    [endpoint |-> endpoint, asked |-> asked,
     authenticated |-> auth.ok, admitted |-> auth.ok /\ limit.ok,
     header |-> IF ~auth.ok THEN auth.header ELSE limit.header,
     body |-> body, effects |-> effects, upstream |-> upstream,
     cache |-> IF redisConn THEN backend ELSE "down", elapsed |-> 0]

\* the response when the dependency or the wrapper raised
Refused(auth, limit) ==
    IF ~auth.ok THEN ErrorBody(auth.status, auth.detail)
    ELSE ErrorBody(limit.status, limit.detail)

NoLimit == [ok |-> FALSE, status |-> 0, detail |-> "", header |-> ""]

\* POST requests that are handled at the same time: create_insight is a
\* plain def that shares with other calls only the cache backend
Callers == {"c1", "c2"}

\* no create_insight call is followed. History kept with the locals: stored
\* (both writes of set were made), stored_at (time of the payload write),
\* raced (the lookup was made while another call for the same symbol had
\* looked up and not yet written), last (the latest alias write was this call's)
IdleCreate ==
    [pc |-> "idle", symbol |-> "", request_id |-> "", data |-> NoData,
     fetched_at |-> PyNone, fetches |-> 0, stored |-> FALSE, stored_at |-> 0,
     raced |-> FALSE, last |-> FALSE, body |-> ErrorBody(0, "")]

InitGateway ==
    /\ creating = [c \in Callers |-> IdleCreate]
    /\ authOp = NoAuthOp
    /\ nextUuid = 1
    /\ resp = [endpoint |-> "none", asked |-> "", authenticated |-> FALSE,
               admitted |-> FALSE, header |-> "", body |-> ErrorBody(0, ""),
               effects |-> NoEffects, upstream |-> FALSE, cache |-> "down",
               elapsed |-> 0]

Guarded_always(auth, limit) == TRUE

\* the handler runs only when the dependency and the wrapper let it
Guarded(auth, limit) == auth.ok /\ limit.ok

\* what the environment decides during a request: the outcome of each
\* backend call that is made, the Fetcher's answer when it is asked, the time
\* between the two writes of a set; nothing where the handler does not get to
LookupOutcomes(handled) ==
    IF handled /\ redisConn THEN [1..2 -> CallOutcomes(backend)] ELSE {<<TRUE, TRUE>>}
\* create_insight gets past the cache lookup
Fetches(handled, rawSymbol, og) ==
    /\ handled
    /\ ValidateSymbol(rawSymbol).ok
    /\ ~CacheGet(redisConn, redis, QueryParams(LowerStrip(rawSymbol)), now,
                 og[1], og[2]).found
ReplyChoices(fetches, symbol) ==
    IF fetches THEN FetcherReplies(symbol)
    ELSE {[kind |-> "ok", status |-> 200,
           data |-> [symbol |-> symbol, quote |-> 1, valid |-> TRUE]]}
StoreOutcomes(fetches, reply) ==
    IF fetches /\ redisConn /\ FetchWouldSucceed(reply)
    THEN [1..2 -> CallOutcomes(backend)] ELSE {<<TRUE, TRUE>>}
DelayChoices(fetches, reply) ==
    IF fetches /\ redisConn /\ FetchWouldSucceed(reply) THEN {0, 1} ELSE {0}

\* POST /v1/insights: verify_token, rate_limit() wrapper, create_insight
PostInsight(h, rawSymbol) ==
    \E auth \in {VerifyToken(h)} :
    \E limit \in {IF auth.ok
                   THEN Wrapper(requests, auth.token, NoneInt, NoneInt, now)
                   ELSE NoLimit} :
    \E handled \in {Guarded(auth, limit)} :
       \E og \in LookupOutcomes(handled) :
       \E reply \in ReplyChoices(Fetches(handled, rawSymbol, og), LowerStrip(rawSymbol)) :
       \E os \in StoreOutcomes(Fetches(handled, rawSymbol, og), reply),
          d \in DelayChoices(Fetches(handled, rawSymbol, og), reply) :
        \E out \in {CreateInsight(redisConn, redis, nextUuid, rawSymbol, reply,
                                   now, d, og \o os)} :
           IF handled
           THEN /\ out.uuid <= MaxIds + 1
                /\ now + out.elapsed <= MaxTime
                /\ requests' = IF auth.ok THEN limit.requests ELSE requests
                /\ now' = now + out.elapsed
                /\ redis' = Purge(out.redis, now + out.elapsed)
                /\ nextUuid' = out.uuid
                /\ resp' = [Response("POST", LowerStrip(rawSymbol), auth, limit,
                                     out.body, out.effects, FetchWouldSucceed(reply))
                               EXCEPT !.elapsed = out.elapsed]
                /\ UNCHANGED <<redisConn, backend, cacheOp, setLog, setCall, authOp, creating,
                               argLimit, argWindow, task, callLog, fvars>>
           ELSE /\ requests' = IF auth.ok THEN limit.requests ELSE requests
                /\ resp' = Response("POST", LowerStrip(rawSymbol), auth, limit,
                                    Refused(auth, limit), NoEffects, FALSE)
                /\ UNCHANGED <<now, redis, nextUuid, redisConn, backend, cacheOp, setLog,
                               setCall, authOp, creating, argLimit, argWindow, task,
                               callLog, fvars>>

\* GET /v1/insights/{request_id}: verify_token, rate_limit(max_calls=20)
\* wrapper, get_insight
GetInsight(h, request_id) ==
    \E auth \in {VerifyToken(h)} :
    \E limit \in {IF auth.ok
                   THEN Wrapper(requests, auth.token, get_insight_max_calls,
                                NoneInt, now)
                   ELSE NoLimit} :
    \E handled \in {Guarded(auth, limit)} :
       \E oks \in LookupOutcomes(handled) :
        \E out \in {GetInsightBody(redisConn, redis, request_id, now, oks[1])} :
           /\ requests' = IF auth.ok THEN limit.requests ELSE requests
           /\ redis' = IF handled THEN AfterGet(redis, now) ELSE redis
           /\ resp' = IF handled
                      THEN Response("GET", request_id, auth, limit, out.body,
                                    out.effects, FALSE)
                      ELSE Response("GET", request_id, auth, limit,
                                    Refused(auth, limit), NoEffects, FALSE)
           /\ UNCHANGED <<now, nextUuid, redisConn, backend, cacheOp, setLog,
                          setCall, authOp, creating, argLimit, argWindow, task,
                          callLog, fvars>>

\* body of health_check (routers/health.py); ok1: the PING
HealthBody(conn, ok1, t) ==
    Body(200, IF CacheHealthCheck(conn, ok1).ok THEN "healthy" ELSE "degraded",
         "", "", FALSE, NoData, PyDatetime(t))

\* GET /v1/health: rate_limit() wrapper, health_check. The endpoint has no
\* token parameter, so the wrapper's kwargs.get('token') is None
GetHealth ==
    \E limit \in {Wrapper(requests, None, NoneInt, NoneInt, now)} :
    \E ok1 \in CallOutcomes(backend) :
        /\ requests' = limit.requests
        /\ resp' = [endpoint |-> "HEALTH", asked |-> "", authenticated |-> FALSE,
                    admitted |-> limit.ok, header |-> limit.header,
                    body |-> IF limit.ok THEN HealthBody(redisConn, ok1, now)
                             ELSE ErrorBody(limit.status, limit.detail),
                    effects |-> NoEffects, upstream |-> FALSE,
                    cache |-> IF redisConn THEN backend ELSE "down", elapsed |-> 0]
        /\ UNCHANGED <<now, redis, nextUuid, redisConn, backend, cacheOp, setLog,
                       setCall, authOp, creating, argLimit, argWindow, task,
                       callLog, fvars>>

\* the clock advances; the server drops what has expired
Tick ==
    /\ TickBody
    /\ redis' = Purge(redis, now + 1)
    /\ UNCHANGED <<redisConn, backend, cacheOp, setLog, setCall, rlvars, fvars, gvars>>

\* the server goes away, comes back, or becomes unreliable
ServerChange(b) ==
    /\ b # backend
    /\ backend' = b
    /\ UNCHANGED <<now, redisConn, redis, cacheOp, setLog, setCall, rlvars, fvars, gvars>>

Init ==
    /\ now = 0
    /\ InitLimiter
    /\ InitFetcher
    /\ InitCache
    /\ InitGateway

Next ==
    \/ \E h \in Headers, rawSymbol \in RequestSymbols : PostInsight(h, rawSymbol)
    \/ \E h \in Headers, request_id \in RequestIds : GetInsight(h, request_id)
    \/ GetHealth
    \/ Tick
    \/ \E b \in {"up", "down", "flaky"} : ServerChange(b)

Spec == Init /\ [][Next]_vars

InitA ==
    /\ now = 0
    /\ InitLimiter
    /\ InitFetcher
    /\ InitCacheUp
    /\ InitGateway

NextA == \E h \in AuthHeaders : Authenticate(h)

SpecA == InitA /\ [][NextA]_vars

InitF ==
    /\ now = 0
    /\ InitLimiter
    /\ InitFetcher
    /\ InitCacheUp
    /\ InitGateway

NextF ==
    \/ \E symbol \in GATEWAY_ALLOWED_SYMBOLS : FetchStart(symbol)
    \/ \E o \in ProviderOutcomes : FetchAttempt(o)

SpecF == InitF /\ [][NextF]_vars

\* every attempt ends: client.get answers or fails within the 10 s timeout,
\* and the exponential wait between attempts is at most 8 s
SpecFL == SpecF /\ WF_vars(\E o \in ProviderOutcomes : FetchAttempt(o))

InitRL ==
    /\ now = 0
    /\ requests = [i \in Identities |-> <<>>]
    /\ argLimit \in {NoneInt} \cup (0..MaxLimit)
    /\ argWindow \in {NoneInt} \cup (0..MaxWindow)
    /\ task = [t \in Tasks |-> IdleTask]
    /\ callLog = [i \in Identities |-> <<>>]
    /\ InitFetcher
    /\ InitCacheUp
    /\ InitGateway

NextRL ==
    \/ \E t \in Tasks, token \in Identities : RLCall(t, token)
    \/ \E t \in Tasks : RLClean(t)
    \/ \E t \in Tasks : RLCount(t)
    \/ \E t \in Tasks : RLDecide(t)
    \/ RLTick

SpecRL == InitRL /\ [][NextRL]_vars

\* ------------------------------------- the cache object called directly
\* payloads handed to set in these runs
Payload(symbol, t) == [data |-> [symbol |-> symbol, quote |-> 1, valid |-> TRUE],
                   fetched_at |-> PyFloat(t)]

\* a set that returned True is recorded; it supersedes the earlier ones for
\* the same fingerprint
LogSet(log, fp, id, payload, t, ttl) ==
    [i \in MintedIds |->
        IF i = id
        THEN [done |-> TRUE, fp |-> fp, payload |-> payload, at |-> t, ttl |-> ttl,
              superseded |-> FALSE]
        ELSE IF log[i].done /\ log[i].fp = fp THEN [log[i] EXCEPT !.superseded = TRUE]
        ELSE log[i]]

\* records of sets whose TTL, counted from the call, has run out are dropped
PurgeLog(log, t) ==
    [i \in MintedIds |-> IF log[i].done /\ t < log[i].at + log[i].ttl THEN log[i] ELSE NoSet]

CGet(fp) ==
    \E ok1, ok2 \in CallOutcomes(backend) :
        LET res == CacheGet(redisConn, redis, fp, now, ok1, ok2)
        IN /\ cacheOp' = [NoOp EXCEPT !.op = "get", !.arg = fp, !.found = res.found,
                                      !.hit = res.result_data.hit,
                                      !.data = res.result_data.data,
                                      !.request_id = res.request_id,
                                      !.failed = res.failed, !.raised = res.raised]
           /\ UNCHANGED <<now, redisConn, backend, redis, setLog, setCall, notC>>

CGetByRequestId(id) ==
    \E ok1 \in CallOutcomes(backend) :
        LET res == CacheGetByRequestId(redisConn, redis, id, now, ok1)
        IN /\ cacheOp' = [NoOp EXCEPT !.op = "get_by_request_id", !.hit = res.hit,
                                      !.data = res.data, !.request_id = id,
                                      !.failed = res.failed, !.raised = res.raised]
           /\ UNCHANGED <<now, redisConn, backend, redis, setLog, setCall, notC>>

\* set with a request id that is not in use (callers mint one per call)
CSet(symbol, id, ttl) ==
    \E ok1, ok2 \in CallOutcomes(backend), d \in {0, 1} :
        LET res == CacheSet(redisConn, redis, QueryParams(symbol), id, Payload(symbol, now),
                            EffectiveTtl(ttl), now, d, ok1, ok2)
        IN /\ now + d <= MaxTime
           /\ ~Live(redis.result[GetResultKey(id)], now)
           /\ now' = now + d
           /\ redis' = Purge(res.redis, now + d)
           /\ cacheOp' = [NoOp EXCEPT !.op = "set", !.ok = res.ok, !.request_id = id,
                                      !.failed = res.failed, !.raised = res.raised,
                                      !.changed = (res.redis # redis)]
           /\ setLog' = PurgeLog(IF res.ok
                                  THEN LogSet(setLog, QueryParams(symbol), id,
                                              Payload(symbol, now), now, EffectiveTtl(ttl))
                                  ELSE setLog, now + d)
           /\ UNCHANGED <<redisConn, backend, setCall, notC>>

CDelete(fp) ==
    \E ok1, ok2 \in CallOutcomes(backend) :
        LET res == CacheDelete(redisConn, redis, fp, now, ok1, ok2)
        IN /\ redis' = res.redis
           /\ cacheOp' = [NoOp EXCEPT !.op = "delete", !.ok = res.ok,
                                      !.failed = res.failed, !.raised = res.raised,
                                      !.changed = (res.redis # redis)]
           /\ setLog' = IF res.ok
                        THEN [setLog EXCEPT ![redis.query[GetQueryKey(fp)].value] = NoSet]
                        ELSE setLog
           /\ UNCHANGED <<now, redisConn, backend, setCall, notC>>

CClear ==
    \E ok1, ok2 \in CallOutcomes(backend) :
        LET res == CacheClear(redisConn, redis, now, ok1, ok2)
        IN /\ redis' = res.redis
           /\ cacheOp' = [NoOp EXCEPT !.op = "clear", !.count = res.count,
                                      !.failed = res.failed, !.raised = res.raised,
                                      !.changed = (res.redis # redis)]
           /\ setLog' = IF res.redis # redis THEN NoSets ELSE setLog
           /\ UNCHANGED <<now, redisConn, backend, setCall, notC>>

CHealthCheck ==
    \E ok1 \in CallOutcomes(backend) :
        LET res == CacheHealthCheck(redisConn, ok1)
        IN /\ cacheOp' = [NoOp EXCEPT !.op = "health_check", !.ok = res.ok,
                                      !.failed = res.failed, !.raised = res.raised]
           /\ UNCHANGED <<now, redisConn, backend, redis, setLog, setCall, notC>>

\* the clock advances; the server drops what has expired
CTick ==
    /\ TickBody
    /\ redis' = Purge(redis, now + 1)
    /\ setLog' = PurgeLog(setLog, now + 1)
    /\ UNCHANGED <<redisConn, backend, cacheOp, setCall, notC>>

\* the server goes away, comes back, or becomes unreliable
BackendChange(b) ==
    /\ b # backend
    /\ backend' = b
    /\ UNCHANGED <<now, redisConn, redis, cacheOp, setLog, setCall, notC>>

InitC ==
    /\ now = 0
    /\ InitLimiter
    /\ InitFetcher
    /\ InitCache
    /\ InitGateway

NextC ==
    \/ \E symbol \in CachedSymbols : CGet(QueryParams(symbol))
    \/ \E id \in RequestIds : CGetByRequestId(id)
    \/ \E symbol \in CachedSymbols, id \in MintedIds, ttl \in {NoneInt, 1} :
          CSet(symbol, id, ttl)
    \/ \E symbol \in CachedSymbols : CDelete(QueryParams(symbol))
    \/ CClear
    \/ CHealthCheck
    \/ CTick
    \/ \E b \in {"up", "down", "flaky"} : BackendChange(b)

SpecC == InitC /\ [][NextC]_vars

\* ------------------------------------ a set call followed write by write
\* RedisCache.set up to its first SETEX: it returns False before any write,
\* or the first write is made and the call stands between its two writes
WBegin(symbol, id, ttl) ==
    /\ setCall.pc # "between"
    /\ ~Live(redis.result[GetResultKey(id)], now)
    /\ redis.query[GetQueryKey(QueryParams(symbol))].value # id
    /\ \E ok1 \in CallOutcomes(backend) :
       \E res \in {CacheSet(redisConn, redis, QueryParams(symbol), id, Payload(symbol, now),
                            EffectiveTtl(ttl), now, 0, ok1, FALSE)} :
          IF res.redis = redis
          THEN /\ cacheOp' = [NoOp EXCEPT !.op = "set", !.request_id = id,
                                          !.failed = TRUE]
               /\ UNCHANGED <<redis, setCall>>
          ELSE /\ redis' = res.redis
               /\ setCall' =
                     [pc |-> "between", fp |-> QueryParams(symbol), id |-> id,
                      payload |-> Payload(symbol, now), ttl |-> EffectiveTtl(ttl),
                      at |-> now,
                      issued |-> {SetWrites(QueryParams(symbol), id, Payload(symbol, now),
                                            EffectiveTtl(ttl))[1].kind}]
               /\ UNCHANGED cacheOp
    /\ UNCHANGED <<now, redisConn, backend, setLog, notC>>

\* the second SETEX of the call and its return
WEnd ==
    /\ setCall.pc = "between"
    /\ \E ok2 \in CallOutcomes(backend) :
       \E w \in {SetWrites(setCall.fp, setCall.id, setCall.payload, setCall.ttl)[2]} :
          /\ redis' = IF ok2 THEN Purge(ApplyWrite(redis, w, now), now) ELSE redis
          /\ setCall' = [setCall EXCEPT !.pc = "returned",
                                         !.issued = IF ok2 THEN @ \cup {w.kind} ELSE @]
          /\ cacheOp' = [NoOp EXCEPT !.op = "set", !.ok = ok2, !.request_id = setCall.id,
                                     !.failed = ~ok2, !.changed = TRUE]
          /\ setLog' = IF ok2
                       THEN PurgeLog(LogSet(setLog, setCall.fp, setCall.id, setCall.payload,
                                            setCall.at, setCall.ttl), now)
                       ELSE setLog
    /\ UNCHANGED <<now, redisConn, backend, notC>>

\* the process dies between the two writes; the server keeps what was
\* written, and the next process constructs its own cache object
WCrash ==
    /\ setCall.pc = "between"
    /\ setCall' = [setCall EXCEPT !.pc = "crashed"]
    /\ redisConn' \in CallOutcomes(backend)
    /\ UNCHANGED <<now, backend, redis, cacheOp, setLog, notC>>

NextW ==
    \/ \E symbol \in CachedSymbols, id \in MintedIds, ttl \in {NoneInt, 1} :
          WBegin(symbol, id, ttl)
    \/ WEnd
    \/ WCrash
    \/ \E symbol \in CachedSymbols : CGet(QueryParams(symbol))
    \/ \E id \in RequestIds : CGetByRequestId(id)
    \/ CTick
    \/ \E b \in {"up", "down", "flaky"} : BackendChange(b)

SpecW == InitC /\ [][NextW]_vars

\* ------------------------------ create_insight calls followed step by step
\* create_insight, lines 46-73: validate_symbol, cache.get, and on a miss a
\* new request id
GLookup(c, rawSymbol) ==
    /\ creating[c].pc = "idle"
    /\ \E ok1, ok2 \in CallOutcomes(backend) :
       \E v \in {ValidateSymbol(rawSymbol)} :
          IF ~v.ok
          THEN /\ creating' = [creating EXCEPT ![c].pc = "done", ![c].symbol = v.symbol,
                                               ![c].body = InvalidSymbol.body]
               /\ UNCHANGED nextUuid
          ELSE \E cached_result \in {CacheGet(redisConn, redis, QueryParams(v.symbol),
                                              now, ok1, ok2)} :
             IF cached_result.raised
             THEN /\ creating' = [creating EXCEPT ![c].pc = "done",
                                                  ![c].symbol = v.symbol,
                                                  ![c].body = InternalServerError]
                  /\ UNCHANGED nextUuid
             ELSE IF cached_result.found
             THEN /\ creating' = [creating EXCEPT
                                     ![c].pc = "done", ![c].symbol = v.symbol,
                                     ![c].body = CachedResponse(cached_result.result_data,
                                                                cached_result.request_id,
                                                                v.symbol)]
                  /\ UNCHANGED nextUuid
             ELSE /\ nextUuid <= MaxIds
                  /\ creating' = [creating EXCEPT
                                     ![c].pc = "fetch", ![c].symbol = v.symbol,
                                     ![c].request_id = Uuid(nextUuid),
                                     ![c].raced =
                                         \E k \in Callers \ {c} :
                                             /\ creating[k].pc \in {"fetch", "store"}
                                             /\ creating[k].symbol = v.symbol]
                  /\ nextUuid' = nextUuid + 1
    /\ UNCHANGED <<now, rlvars, fvars, cvars, authOp, resp>>

\* create_insight, lines 76-88: fetch_symbol_data, InsightData, time.time()
GFetch(c, reply) ==
    /\ creating[c].pc = "fetch"
    /\ \E fetched \in {FetchSymbolData(reply)} :
          creating' =
             IF ~fetched.ok
             THEN [creating EXCEPT ![c].pc = "done", ![c].fetches = 1,
                                   ![c].body = ErrorBody(fetched.status,
                                                         "Fetcher service error")]
             ELSE IF ~InsightDataAccepts(fetched.data)
             THEN [creating EXCEPT
                      ![c].pc = "done", ![c].fetches = 1,
                      ![c].body = ErrorBody(500, "Invalid data format from Fetcher service")]
             ELSE [creating EXCEPT ![c].pc = "store", ![c].fetches = 1,
                                   ![c].data = fetched.data,
                                   ![c].fetched_at = PyFloat(now)]
    /\ UNCHANGED <<now, rlvars, fvars, cvars, authOp, nextUuid, resp>>

\* the InsightResponse of a fresh fetch, create_insight lines 100-106
FreshResponse(call) ==
    Body(200, "", call.request_id, call.symbol, FALSE, call.data,
         PyDatetime(call.fetched_at.v))

\* create_insight, line 96: cache.set up to its first SETEX; a set that
\* returns False before any write ends the request (its result is not looked at)
GStorePayload(c) ==
    /\ creating[c].pc = "store"
    /\ \E ok1 \in CallOutcomes(backend) :
       \E res \in {CacheSet(redisConn, redis, QueryParams(creating[c].symbol),
                            creating[c].request_id,
                            [data |-> creating[c].data,
                             fetched_at |-> creating[c].fetched_at],
                            EffectiveTtl(NoneInt), now, 0, ok1, FALSE)} :
          IF res.redis = redis
          THEN /\ creating' = [creating EXCEPT ![c].pc = "done",
                                               ![c].body = FreshResponse(creating[c])]
               /\ UNCHANGED redis
          ELSE /\ creating' = [creating EXCEPT ![c].pc = "alias", ![c].stored_at = now]
               /\ redis' = Purge(res.redis, now)
    /\ UNCHANGED <<now, rlvars, fvars, redisConn, backend, cacheOp, setLog, setCall,
                   authOp, nextUuid, resp>>

\* the second SETEX of cache.set, and the return of create_insight
GStoreAlias(c) ==
    /\ creating[c].pc = "alias"
    /\ \E ok2 \in CallOutcomes(backend) :
       \E w \in {SetWrites(QueryParams(creating[c].symbol), creating[c].request_id,
                           [data |-> creating[c].data,
                            fetched_at |-> creating[c].fetched_at],
                           EffectiveTtl(NoneInt))[2]} :
          /\ redis' = IF ok2 THEN Purge(ApplyWrite(redis, w, now), now) ELSE redis
          /\ creating' = [k \in Callers |->
                            IF k = c
                            THEN [creating[c] EXCEPT !.pc = "done", !.stored = ok2,
                                                     !.last = ok2,
                                                     !.body = FreshResponse(creating[c])]
                            ELSE IF ok2 THEN [creating[k] EXCEPT !.last = FALSE]
                            ELSE creating[k]]
    /\ UNCHANGED <<now, rlvars, fvars, redisConn, backend, cacheOp, setLog, setCall,
                   authOp, nextUuid, resp>>

InitG ==
    /\ now = 0
    /\ InitLimiter
    /\ InitFetcher
    /\ InitCache
    /\ InitGateway

NextG ==
    \/ \E c \in Callers, rawSymbol \in RequestSymbols : GLookup(c, rawSymbol)
    \/ \E c \in Callers : \E reply \in FetcherReplies(creating[c].symbol) : GFetch(c, reply)
    \/ \E c \in Callers : GStorePayload(c)
    \/ \E c \in Callers : GStoreAlias(c)
    \/ Tick
    \/ \E b \in {"up", "down", "flaky"} : ServerChange(b)

SpecG == InitG /\ [][NextG]_vars

\* ------------------------------------------------ claims on the limiter
\* limit and window a limiter run was given (None selects the setting)
GivenLimit == IF argLimit = NoneInt THEN rate_limit_requests ELSE argLimit
GivenWindow == IF argWindow = NoneInt THEN rate_limit_window_seconds ELSE argWindow

\* admitted calls of identity i whose timestamp lies in the window ending at e
AdmittedIn(i, e) ==
    {k \in 1..Len(callLog[i]) :
        /\ callLog[i][k].status = 200
        /\ e - GivenWindow < callLog[i][k].t
        /\ callLog[i][k].t <= e}

WithinFirstWindow(i, k) == callLog[i][k].t - callLog[i][1].t < GivenWindow

\* C2: from an empty history the first L calls within W are admitted and
\* the (L+1)-th within the same window is rejected with 429 and
\* Retry-After = W.
C2_FirstLThenReject ==
    (GivenLimit >= 1 /\ GivenWindow >= 1) =>
        \A i \in Identities : \A k \in 1..Len(callLog[i]) :
            WithinFirstWindow(i, k) =>
                /\ k <= GivenLimit => callLog[i][k].status = 200
                /\ k = GivenLimit + 1 =>
                      /\ callLog[i][k].status = 429
                      /\ callLog[i][k].retryAfter = ToString(GivenWindow)

C2_Witness ==
    /\ GivenLimit >= 1 /\ GivenWindow >= 1
    /\ \E i \in Identities :
          /\ Len(callLog[i]) = GivenLimit + 1
          /\ WithinFirstWindow(i, GivenLimit + 1)
          /\ callLog[i][GivenLimit + 1].status = 429

\* admitted calls of identity i before its n-th call that the n-th call
\* still counts: their timestamp is not older than its window
CountedBefore(i, n) ==
    {m \in 1..(n - 1) :
        /\ callLog[i][m].status = 200
        /\ callLog[i][m].t > callLog[i][n].t - GivenWindow}

\* C11: timestamps older than now - W do not count: a call is admitted
\* whenever fewer than L of the identity's earlier admitted calls are still
\* inside its window, however many older ones there are, and after a call
\* the stored list holds no timestamp older than that call's time minus W.
C11_SlidingWindow ==
    (GivenLimit >= 1 /\ GivenWindow >= 1) =>
        \A i \in Identities :
            /\ \A n \in 1..Len(callLog[i]) :
                  Cardinality(CountedBefore(i, n)) < GivenLimit
                      => callLog[i][n].status = 200
            /\ callLog[i] # <<>> =>
                  \A j \in 1..Len(requests[i]) :
                      ~(requests[i][j] < callLog[i][Len(callLog[i])].t - GivenWindow)

\* an identity was turned away at its limit, the clock advanced, and a later
\* call was admitted although L admitted calls precede it
C11_Witness ==
    /\ GivenLimit >= 1 /\ GivenWindow >= 1
    /\ \E i \in Identities : \E n \in 1..Len(callLog[i]) :
          /\ callLog[i][n].status = 200
          /\ \E m \in 1..(n - 1) : callLog[i][m].status = 429
          /\ Cardinality({m \in 1..(n - 1) : callLog[i][m].status = 200}) >= GivenLimit
          /\ Cardinality(CountedBefore(i, n)) < GivenLimit

\* the step ends a check_limit call of identity i with a rejection
RejectStep(i) ==
    /\ Len(callLog'[i]) = Len(callLog[i]) + 1
    /\ callLog'[i][Len(callLog'[i])].status = 429

\* C27: a rejected admission records nothing: the step that rejects a call
\* appends no timestamp for the identity, every stored timestamp is that of
\* an admitted call, and the Retry-After it reports is the window W.
C27_RejectRecordsNothing ==
    [][\A i \in Identities :
          /\ RejectStep(i) =>
                /\ requests'[i] = requests[i]
                /\ GivenWindow >= 1 =>
                      callLog'[i][Len(callLog'[i])].retryAfter = ToString(GivenWindow)
          /\ \A j \in 1..Len(requests'[i]) :
                \E k \in 1..Len(callLog'[i]) :
                    /\ callLog'[i][k].status = 200
                    /\ callLog'[i][k].t = requests'[i][j]]_vars

\* an identity at its limit was turned away at two different times and its
\* list still holds no more than the admitted calls
C27_Witness ==
    /\ GivenLimit >= 1 /\ GivenWindow >= 1
    /\ \E i \in Identities : \E k, m \in 1..Len(callLog[i]) :
          /\ callLog[i][k].status = 429 /\ callLog[i][m].status = 429
          /\ callLog[i][k].t < callLog[i][m].t
          /\ Len(requests[i]) = GivenLimit

\* the identity whose check_limit call the step starts or continues
Acting(t) == IF task[t].pc = "idle" THEN task'[t].token ELSE task[t].token

\* C28: identities are independent: a step of a check_limit call for one
\* identity, admitted or rejected, leaves the timestamp list of every other
\* identity unchanged, and the outcome of every call is decided by the
\* earlier admitted calls of its own identity alone.
C28_IdentitiesIndependent ==
    [][/\ \A t \in Tasks : task'[t] # task[t] =>
             \A b \in Identities \ {Acting(t)} :
                 requests'[b] = requests[b] /\ callLog'[b] = callLog[b]
       /\ (GivenLimit >= 1 /\ GivenWindow >= 1) =>
             \A b \in Identities : \A n \in 1..Len(callLog'[b]) :
                 callLog'[b][n].status = 200
                     <=> Cardinality({m \in 1..(n - 1) :
                            /\ callLog'[b][m].status = 200
                            /\ callLog'[b][m].t > callLog'[b][n].t - GivenWindow})
                            < GivenLimit]_vars

\* one identity was turned away and the other was admitted, both at
\* the same time, each with a list of its own
C28_Witness ==
    /\ GivenLimit >= 1 /\ GivenWindow >= 1
    /\ \E a \in Identities : \E b \in Identities \ {a} :
          /\ Len(callLog[a]) = GivenLimit + 1
          /\ callLog[a][GivenLimit + 1].status = 429
          /\ Len(callLog[b]) = 1
          /\ callLog[b][1].status = 200
          /\ callLog[b][1].t = callLog[a][GivenLimit + 1].t
          /\ Len(requests[b]) = 1
          /\ task = [t \in Tasks |-> IdleTask]

\* the step ends a check_limit call of identity i, admitted or rejected
ReturnStep(i) == Len(callLog'[i]) = Len(callLog[i]) + 1

\* C29: right after a check_limit call for an identity at time now with
\* window W, admitted or rejected, every stored timestamp ts of the identity
\* satisfies now - W < ts <= now and the list is in non-decreasing order;
\* the count that was compared with the limit was taken from the pruned list.
C29_RateWindowInvariant ==
    [][\A i \in Identities :
          (ReturnStep(i) /\ GivenWindow >= 1) =>
              LET at == callLog'[i][Len(callLog'[i])].t
              IN /\ \A j \in 1..Len(requests'[i]) :
                       at - GivenWindow < requests'[i][j] /\ requests'[i][j] <= at
                 /\ \A j \in 1..(Len(requests'[i]) - 1) :
                       requests'[i][j] <= requests'[i][j + 1]
                 /\ \A t \in Tasks : task[t].pc = "decide" =>
                       task[t].request_count =
                           Cardinality({j \in 1..Len(requests[i]) :
                                           requests[i][j] > at - GivenWindow})]_vars

\* a call pruned a timestamp that had left the window and was admitted on
\* the count of the pruned list
C29_Witness ==
    /\ GivenLimit >= 1 /\ GivenWindow >= 1
    /\ \E i \in Identities :
          /\ Len(callLog[i]) >= 2
          /\ callLog[i][Len(callLog[i])].status = 200
          /\ \E m \in 1..(Len(callLog[i]) - 1) :
                /\ callLog[i][m].status = 200
                /\ callLog[i][m].t <= callLog[i][Len(callLog[i])].t - GivenWindow
          /\ \E m \in 1..(Len(callLog[i]) - 1) :
                /\ callLog[i][m].status = 200
                /\ callLog[i][m].t > callLog[i][Len(callLog[i])].t - GivenWindow
          /\ Len(requests[i]) = 2
          /\ task = [t \in Tasks |-> IdleTask]

\* ------------------------------------------------- claims on the fetcher
\* C8: a 4xx answer is definitive: no attempt follows an attempt that the
\* provider answered with a 4xx status, and a fetch answered 404 ends after
\* exactly one attempt with a 404 result.
C8_NoRetryOn4xx ==
    /\ \A k \in 1..Len(fOutcomes) : Is4xx(fOutcomes[k]) => k = Len(fOutcomes)
    /\ (fPc = "done" /\ fOutcomes[1].status = 404) =>
          (Attempts = 1 /\ fResult.status = 404)

AllAttempts(P(_)) == \A k \in 1..Len(fOutcomes) : P(fOutcomes[k])

\* C9: when every attempt fails with a 5xx answer, or every attempt fails
\* with a connection/timeout error, the client makes exactly 3 attempts and
\* surfaces the failure only after the third.
C9_ThreeAttemptsOnTransient ==
    (Attempts >= 1 /\ (AllAttempts(Is5xx) \/ AllAttempts(IsTransportFailure))) =>
        /\ Attempts <= 3
        /\ Attempts < 3 => (fPc = "attempting" /\ fResult = NoResult)
        /\ Attempts = 3 => (fPc = "done" /\ fResult.status = 503)

C9_Witness ==
    /\ fPc = "done"
    /\ Attempts = 3
    /\ AllAttempts(IsTransportFailure)
    /\ fResult.status = 503

\* the provider's answer to the last attempt of the fetch
LastOutcome == fOutcomes[Len(fOutcomes)]
LastStatus(st) ==
    fPc = "done" /\ LastOutcome.kind = "response" /\ LastOutcome.status = st

\* the status the gateway gives its caller for the finished fetch
GatewayReports == FetchSymbolData(FetchRoute(fResult)).status

\* C14: the upstream client turns a provider 400 into 400, a provider 401
\* into 503 (never 401), a provider 404 into 404, and a 5xx that persists
\* through all retries into 503.
C14_StatusMapping ==
    /\ LastStatus(400) => fResult.status = 400
    /\ LastStatus(401) => fResult.status = 503
    /\ LastStatus(404) => fResult.status = 404
    /\ (fPc = "done" /\ AllAttempts(Is5xx)) => fResult.status = 503
    /\ fPc = "done" => fResult.status # 401

\* a credential failure of the provider was masked
C14_Witness == LastStatus(401) /\ fResult.status = 503

\* C15: a connection or timeout failure of the provider that persists
\* through all retries is reported by the gateway to its caller as 504.
C15_TimeoutIs504 ==
    (fPc = "done" /\ AllAttempts(IsTransportFailure)) => GatewayReports = 504

\* C16: a provider answer with a 4xx status other than 400, 401 and 404
\* surfaces to the caller with the provider's own status code.
C16_Other4xxPassthrough ==
    (fPc = "done" /\ Is4xx(LastOutcome) /\ LastOutcome.status \notin {400, 401, 404})
        => /\ fResult.status = LastOutcome.status
           /\ GatewayReports = LastOutcome.status

\* C17: on a 2xx answer the client fails with 500 and returns no insight
\* when the entry of the requested symbol, the circulating supply or the
\* market cap is absent; it returns an insight only when all three are
\* present, and the insight carries them.
C17_ParseValidation ==
    LastStatus(200) =>
        /\ (\/ LastOutcome.body.entry = "absent"
            \/ LastOutcome.body.supply = NoneInt
            \/ LastOutcome.body.market_cap = NoneInt)
              => (fResult.status = 500 /\ fResult.insight = NoInsight)
        /\ fResult.status = 200 =>
              /\ LastOutcome.body.entry = "object"
              /\ fResult.insight.symbol = fSymbol
              /\ fResult.insight.market_cap = LastOutcome.body.market_cap
              /\ fResult.insight.market_cap # NoneInt
              /\ fResult.insight.circulating_suply = LastOutcome.body.supply
              /\ fResult.insight.circulating_suply # NoneInt
        /\ fResult.status \in {200, 500}

\* an entry with a market cap but without a supply was refused
C17_Witness ==
    /\ LastStatus(200)
    /\ LastOutcome.body.entry = "object"
    /\ LastOutcome.body.market_cap = 7
    /\ LastOutcome.body.supply = NoneInt
    /\ fResult.status = 500

\* C26: the whitelists agree: the fetcher's validator accepts bitcoin,
\* ethereum, cardano, solana and polkadot, so a symbol that the gateway's
\* validator accepts is never refused as invalid by the Fetcher service and
\* the gateway never answers 400 for it without the provider being asked.
C26_WhitelistsAgree ==
    /\ fPc # "idle" =>
          (fSymbol \in {"bitcoin", "ethereum", "cardano", "solana", "polkadot"}
              => fPc # "rejected")
    /\ (fPc \in {"done", "rejected"} /\ ValidateSymbol(fSymbol).ok /\ fOutcomes = <<>>)
          => GatewayReports # 400

\* -------------------------------------------- claims on the bearer gate
\* "bearer", compared without regard to case, with at most one colon after it
BearerScheme(scheme) ==
    \/ Lower(scheme) = bearer
    \/ Lower(scheme) = Append(bearer, ":")

\* C18: validate_authorization_header returns the token if and only if the
\* header is present, has exactly two whitespace-separated parts, the first
\* is "bearer" in any case with at most one trailing colon and the second
\* equals the configured secret; for every other header it fails with 401.
C18_AuthGateDecision ==
    authOp # NoAuthOp =>
        LET h == authOp.header
            accepted == /\ h.present
                        /\ Len(h.parts) = 2
                        /\ BearerScheme(h.parts[1])
                        /\ h.parts[2] = api_token
        IN /\ authOp.result.ok <=> accepted
           /\ authOp.result.ok => authOp.result.token = h.parts[2]
           /\ ~authOp.result.ok => authOp.result.status = 401

C20_HealthAlways200 ==
    resp.endpoint = "HEALTH" =>
        /\ resp.body.status = 200
        /\ resp.body.detail \in {"healthy", "degraded"}
        /\ resp.cache = "up" => resp.body.detail = "healthy"
        /\ resp.cache = "down" => resp.body.detail = "degraded"

\* --------------------------------------------------- claims on the cache
\* C7: when the backend is unreachable or a backend call fails, get and
\* get_by_request_id return a miss, set and delete return False, clear
\* returns 0, health_check returns False, none raises, and no stored record
\* changes.
C7_SilentDegradation ==
    cacheOp.failed =>
        /\ cacheOp.op = "get" => ~cacheOp.found
        /\ cacheOp.op = "get_by_request_id" => ~cacheOp.hit
        /\ cacheOp.op \in {"set", "delete", "health_check"} => ~cacheOp.ok
        /\ cacheOp.op = "clear" => cacheOp.count = 0
        /\ ~cacheOp.raised
        /\ ~cacheOp.changed

\* set(fp, id, ...) returned True, nothing deleted it since, and its TTL,
\* counted from the call, has not elapsed
StillStored(id) ==
    /\ id \in MintedIds
    /\ setLog[id].done
    /\ now < setLog[id].at + setLog[id].ttl

\* C12: with a reachable backend, after set(fp, id, payload, ttl) returned
\* True, before the TTL elapses and with no delete or clear in between,
\* get(fp) returns exactly (payload, id) and get_by_request_id(id) returns
\* exactly payload.
C12_RoundTrip ==
    /\ (cacheOp.op = "get" /\ ~cacheOp.failed) =>
          \A id \in MintedIds :
              (StillStored(id) /\ setLog[id].fp = cacheOp.arg /\ ~setLog[id].superseded)
                  => /\ cacheOp.found /\ cacheOp.hit
                     /\ cacheOp.request_id = id
                     /\ cacheOp.data = setLog[id].payload
    /\ (cacheOp.op = "get_by_request_id" /\ ~cacheOp.failed
          /\ StillStored(cacheOp.request_id)
          /\ ~setLog[cacheOp.request_id].superseded)
          => /\ cacheOp.hit
             /\ cacheOp.data = setLog[cacheOp.request_id].payload

\* get(fp) returned what a set stored at an earlier time
C12_Witness ==
    /\ cacheOp.op = "get" /\ cacheOp.found /\ cacheOp.hit
    /\ StillStored(cacheOp.request_id)
    /\ cacheOp.data = setLog[cacheOp.request_id].payload
    /\ now > setLog[cacheOp.request_id].at

\* C13: after set(fp, id, payload, ttl), get_by_request_id(id) returns
\* payload for as long as the payload record's TTL has not elapsed, whether
\* the alias for fp is present, has expired or points to a later id.
C13_LookupByIdIndependent ==
    (cacheOp.op = "get_by_request_id" /\ ~cacheOp.failed
        /\ StillStored(cacheOp.request_id))
        => /\ cacheOp.hit
           /\ cacheOp.data = setLog[cacheOp.request_id].payload

\* the payload of a superseded set was read by id after the alias was gone
C13_Witness ==
    /\ cacheOp.op = "get_by_request_id" /\ cacheOp.hit
    /\ StillStored(cacheOp.request_id)
    /\ setLog[cacheOp.request_id].superseded
    /\ ~Live(redis.query[GetQueryKey(setLog[cacheOp.request_id].fp)], now)

\* ------------------------------------------------- claims on the gateway
\* the last request was a POST that passed the token check and the limiter
AdmittedPost == resp.endpoint = "POST" /\ resp.authenticated /\ resp.admitted

\* the step handles an admitted request (every admission appends a timestamp)
AdmittedStep(endpoint, asked) ==
    /\ requests' # requests
    /\ resp'.endpoint = endpoint
    /\ resp'.asked = asked
    /\ resp'.authenticated /\ resp'.admitted

\* the last request was a POST answered 200 with cached = false while the
\* cache was reachable
FreshPost ==
    /\ AdmittedPost
    /\ resp.cache = "up"
    /\ resp.body.status = 200
    /\ ~resp.body.cached

\* the TTL of the entry stored by the last POST has not elapsed
WithinTtl == now < resp.body.fetched_at.v + cache_ttl_seconds

\* C3: with a reachable cache, a POST for the symbol of the preceding POST,
\* made before the TTL elapses, returns 200 with cached = true and the
\* requestId of the first.
C3_IdempotentCreate ==
    [][(FreshPost /\ WithinTtl /\ AdmittedStep("POST", resp.body.symbol)
          /\ resp'.cache = "up")
        => (/\ resp'.body.status = 200
            /\ resp'.body.cached
            /\ resp'.body.request_id = resp.body.request_id)]_vars

\* C4: after a POST returned cached = false with requestId r, a GET for r
\* before the TTL elapses returns 200 with requestId r, cached = true and the
\* payload of the POST; a POST for the symbol repeated after that GET returns
\* cached = true with requestId r.
C4_EndToEnd ==
    [][/\ (FreshPost /\ WithinTtl /\ AdmittedStep("GET", resp.body.request_id)
             /\ resp'.cache = "up")
          => (/\ resp'.body.status = 200
              /\ resp'.body.request_id = resp.body.request_id
              /\ resp'.body.cached
              /\ resp'.body.data = resp.body.data)
       /\ (resp.endpoint = "GET" /\ resp.body.status = 200 /\ resp.cache = "up"
             /\ AdmittedStep("POST", resp.body.symbol) /\ resp'.cache = "up"
             /\ Live(redis.query[GetQueryKey(QueryParams(resp.body.symbol))], now))
          => (/\ resp'.body.status = 200
              /\ resp'.body.cached
              /\ resp'.body.request_id = resp.body.request_id)]_vars

\* C5: whatever the state of the cache backend, an admitted POST for a
\* whitelisted symbol whose upstream fetch would succeed is answered 200.
C5_CacheNeverSurfaces ==
    (AdmittedPost /\ resp.asked \in GATEWAY_ALLOWED_SYMBOLS /\ resp.upstream)
        => resp.body.status = 200

C10_ShortCircuit ==
    (resp.endpoint \in {"POST", "GET"} /\ ~(resp.authenticated /\ resp.admitted))
        => /\ resp.effects = NoEffects
           /\ resp.body.status \in {401, 429}

\* a POST for a cached symbol was turned away by the limiter
C10_Witness ==
    /\ resp.endpoint = "POST"
    /\ resp.authenticated /\ ~resp.admitted
    /\ resp.body.status = 429
    /\ resp.asked \in CachedSymbols
    /\ Live(redis.query[GetQueryKey(QueryParams(resp.asked))], now)

\* C21: an authenticated, admitted GET /v1/insights/{request_id}, made while
\* the cache is reachable, is answered 200 with cached = true when a payload
\* record for the id exists and 404 when none exists, and it never fetches
\* from upstream.
C21_ByIdEndpoint ==
    [][\A id \in RequestIds :
          (AdmittedStep("GET", id) /\ resp'.cache = "up") =>
              /\ Live(redis.result[GetResultKey(id)], now)
                    => (resp'.body.status = 200 /\ resp'.body.cached)
              /\ ~Live(redis.result[GetResultKey(id)], now)
                    => resp'.body.status = 404
              /\ resp'.effects.fetches = 0]_vars

\* C22: an authenticated, admitted POST whose symbol, lower-cased and
\* trimmed, is not in the whitelist is answered 400 with a detail that lists
\* the allowed symbols, and reads no cache, writes no cache and fetches
\* nothing.
C22_InvalidSymbolIs400 ==
    (AdmittedPost /\ resp.asked \notin GATEWAY_ALLOWED_SYMBOLS)
        => /\ resp.body.status = 400
           /\ resp.body.detail =
                 "Invalid symbol. Allowed symbols: bitcoin, ethereum, cardano, solana, polkadot"
           /\ resp.effects.reads = 0
           /\ resp.effects.writes = 0
           /\ resp.effects.fetches = 0

\* dogecoin was refused while an entry was cached and the backend reachable
C22_Witness ==
    /\ AdmittedPost
    /\ resp.asked = "dogecoin"
    /\ resp.body.status = 400
    /\ resp.cache = "up"
    /\ \E k \in QueryKeys : Live(redis.query[k], now)

\* the step changes a record of the cache backend into a record that is served
WritesRecord ==
    \/ \E k \in QueryKeys :
          redis'.query[k] # redis.query[k] /\ Live(redis'.query[k], now')
    \/ \E k \in ResultKeys :
          redis'.result[k] # redis.result[k] /\ Live(redis'.result[k], now')

\* C23: a cache entry is created only after a successful upstream fetch: a
\* POST whose fetch fails with any status or a timeout, or whose fetched data
\* fails validation, writes neither an alias nor a payload record, and every
\* record that appears was written by a POST whose fetch succeeded.
C23_FailureNeverCached ==
    [][/\ \A sy \in GATEWAY_ALLOWED_SYMBOLS :
             (AdmittedStep("POST", sy) /\ resp'.effects.fetches = 1 /\ ~resp'.upstream)
                 => /\ redis' = redis
                    /\ resp'.effects.writes = 0
                    /\ resp'.body.status \notin {0, 200}
       /\ WritesRecord
             => /\ resp'.endpoint = "POST"
                /\ resp'.effects.fetches = 1
                /\ resp'.upstream
                /\ resp'.body.status = 200]_vars

\* the Fetcher handed back data that InsightData refuses; the reachable
\* cache stayed empty
C23_Witness ==
    /\ AdmittedPost
    /\ resp.cache = "up"
    /\ resp.effects.fetches = 1
    /\ resp.body.status = 500
    /\ resp.body.detail = "Invalid data format from Fetcher service"
    /\ redis = EmptyRedis

\* C24: a cache hit, on a POST for the symbol or on a GET by the id of the
\* entry the preceding POST created, answers with the fetchedAt of the
\* response that created the entry and with the stored payload: what the
\* miss path stored is readable by the hit path.
C24_HitKeepsFetchedAt ==
    [][(/\ FreshPost /\ WithinTtl
        /\ \/ AdmittedStep("POST", resp.body.symbol)
           \/ AdmittedStep("GET", resp.body.request_id)
        /\ resp'.cache = "up"
        /\ Live(redis.result[GetResultKey(resp.body.request_id)], now))
        => (/\ resp'.body.status = 200
            /\ resp'.body.fetched_at = resp.body.fetched_at
            /\ resp'.body.data = resp.body.data)]_vars

\* the step is a call of clear on the cache object
ClearStep == cacheOp'.op = "clear" /\ now' = now /\ backend' = backend

\* C25: a clear that reaches the backend, with no writer running beside it,
\* removes every alias (query:*) and every payload (result:*) record, leaves
\* every other key of the backend as it was, and returns the number of keys
\* it removed.
C25_ClearFrame ==
    [][(ClearStep /\ ~cacheOp'.failed)
        => (/\ redis'.query = NoAliases
            /\ redis'.result = NoPayloads
            /\ redis'.other = redis.other
            /\ cacheOp'.count = LiveKeys(redis, now) - LiveKeys(redis', now))]_vars

\* clear removed an alias, its payload and an orphan payload, and the key of
\* another user of the server is still there
C25_Witness ==
    /\ cacheOp.op = "clear"
    /\ cacheOp.count = 3
    /\ redis.query = NoAliases /\ redis.result = NoPayloads
    /\ \E k \in OtherKeys : redis.other[k] # ""

\* the alias of the followed set call is served and names its request id
AliasPointsToNewId ==
    /\ Live(redis.query[GetQueryKey(setCall.fp)], now)
    /\ redis.query[GetQueryKey(setCall.fp)].value = setCall.id

\* the payload record of the followed set call is served
PayloadStored ==
    /\ Live(redis.result[GetResultKey(setCall.id)], now)
    /\ redis.result[GetResultKey(setCall.id)].value = JsonDumps(setCall.payload)

\* C30: set writes the payload record before the alias record: in every
\* state during a set call, one after a crash between the two writes
\* included, an alias that names the new request id implies that the payload
\* for that id has been written; a crash between the writes leaves the
\* payload as an orphan, served by id until its TTL runs out, and no alias
\* that names the id.
C30_PayloadBeforeAlias ==
    setCall.pc # "idle" =>
        /\ AliasPointsToNewId => "payload" \in setCall.issued
        /\ (AliasPointsToNewId /\ now < setCall.at + setCall.ttl) => PayloadStored
        /\ setCall.pc \in {"between", "crashed"} =>
              /\ ~AliasPointsToNewId
              /\ now < setCall.at + setCall.ttl => PayloadStored

\* after a crash between the writes the orphan payload was read by id while
\* the alias still named the id of an earlier set
C30_Witness ==
    /\ setCall.pc = "crashed"
    /\ PayloadStored
    /\ cacheOp.op = "get_by_request_id" /\ cacheOp.hit
    /\ cacheOp.request_id = setCall.id
    /\ Live(redis.query[GetQueryKey(setCall.fp)], now)
    /\ ~AliasPointsToNewId

\* C31: get(fingerprint) returns a miss or a pair (payload, requestId) whose
\* payload is present: when the alias record exists and the payload record
\* it names is absent (expired, deleted or unreadable), get reports a miss.
C31_GetNeverHalfHit ==
    cacheOp.op = "get" =>
        /\ cacheOp.found => cacheOp.hit
        /\ cacheOp.found => cacheOp.data # NoPayload

\* C32: a cache hit is read-only: an admitted POST that finds the alias of
\* its symbol in the reachable cache, and an admitted GET by id, whatever
\* they answer, fetch nothing from upstream, write nothing to the cache and
\* leave every record and its expiry time as it was.
C32_HitIsReadOnly ==
    [][/\ \A sy \in AskedSymbols :
             (/\ AdmittedStep("POST", sy) /\ resp'.cache = "up"
              /\ Live(redis.query[GetQueryKey(QueryParams(sy))], now))
                 => /\ redis' = redis
                    /\ now' = now
                    /\ resp'.effects.fetches = 0
                    /\ resp'.effects.writes = 0
       /\ \A id \in RequestIds :
             AdmittedStep("GET", id)
                 => /\ redis' = redis
                    /\ resp'.effects.fetches = 0
                    /\ resp'.effects.writes = 0]_vars

\* a POST found the entry one second after it was stored, and both records
\* still expire when the TTL given at the store runs out
C32_Witness ==
    /\ AdmittedPost /\ resp.cache = "up"
    /\ resp.asked \in AskedSymbols
    /\ resp.effects = Effects(1, 0, 0, FALSE)
    /\ now = 1
    /\ \E id \in MintedIds :
          /\ redis.query[GetQueryKey(QueryParams(resp.asked))] =
                [value |-> id, expires |-> cache_ttl_seconds]
          /\ redis.result[GetResultKey(id)].expires = cache_ttl_seconds

\* the last request was a POST answered 200 with cached = false, no request
\* followed it, and the TTL has elapsed since its set call returned
EntryExpired ==
    /\ AdmittedPost
    /\ resp.body.status = 200
    /\ ~resp.body.cached
    /\ now >= resp.body.fetched_at.v + resp.elapsed + cache_ttl_seconds

HandedOut == {Uuid(n) : n \in 1..(nextUuid - 1)}

\* the step writes the payload record of id
WritesPayload(id) ==
    /\ redis'.result[GetResultKey(id)] # redis.result[GetResultKey(id)]
    /\ Live(redis'.result[GetResultKey(id)], now')

\* C34: request ids are never reused: the id of a response with
\* cached = false was never handed out before, and a payload record is
\* written only under an id minted by the same request, which no record was
\* ever written under, so no payload record is written twice or overwritten.
C34_IdsNeverReused ==
    [][/\ HandedOut \subseteq HandedOut'
       /\ \A sy \in AskedSymbols :
             (/\ AdmittedStep("POST", sy)
              /\ resp'.body.status = 200
              /\ ~resp'.body.cached)
                 => /\ resp'.body.request_id \notin HandedOut
                    /\ resp'.body.request_id \in HandedOut'
       /\ \A id \in RequestIds :
             WritesPayload(id)
                 => /\ id \notin HandedOut
                    /\ id \in HandedOut'
                    /\ redis.result[GetResultKey(id)] = NoPayloadKey
                    /\ \A other \in RequestIds \ {id} : ~WritesPayload(other)]_vars

\* two POSTs each minted an id and both payloads are served at once (the
\* alias write of the first was lost)
C34_Witness ==
    /\ FreshPost
    /\ resp.body.request_id = Uuid(2)
    /\ Live(redis.result[GetResultKey(Uuid(1))], now)
    /\ Live(redis.result[GetResultKey(Uuid(2))], now)
    /\ redis.result[GetResultKey(Uuid(1))].value.fetched_at
          # redis.result[GetResultKey(Uuid(2))].value.fetched_at

Is2xx(o) == o.kind = "response" /\ o.status >= 200 /\ o.status < 300

\* the fetch ended with an insight, or with an error that carries a status
\* and a detail and no insight
EndsClassified ==
    \/ fResult.status = 200 /\ fResult.insight # NoInsight
    \/ /\ fResult.status \in {400, 404, 500, 503}
       /\ fResult.detail # ""
       /\ fResult.insight = NoInsight

C35_Shape ==
    /\ Attempts <= 3
    /\ \A k \in 1..Len(fOutcomes) : Is2xx(fOutcomes[k]) => k = Len(fOutcomes)
    /\ fPc = "attempting" =>
          (Attempts <= 2 /\ \A k \in 1..Len(fOutcomes) : ~Is2xx(fOutcomes[k]))
    /\ fPc = "done" =>
          /\ Attempts >= 1
          /\ EndsClassified
          /\ (/\ Is2xx(LastOutcome)
              /\ LastOutcome.body.entry = "object"
              /\ LastOutcome.body.market_cap # NoneInt
              /\ LastOutcome.body.supply # NoneInt)
                => (fResult.status = 200 /\ fResult.insight.symbol = fSymbol)

\* C35: for every sequence of provider outcomes the client makes at least
\* one and at most three attempts, makes no attempt after a 2xx answer (a
\* failure followed by a good 2xx answer yields the insight), and every
\* fetch that was started ends, with an insight or with a classified error.
C35_RetryLoop ==
    /\ []C35_Shape
    /\ (fPc = "attempting") ~> (fPc = "done")

\* a timeout, then a good answer: two attempts and the insight
C35_Witness ==
    /\ fPc = "done"
    /\ Attempts = 2
    /\ fOutcomes[1].kind = "timeout"
    /\ Is2xx(fOutcomes[2])
    /\ fResult.status = 200
    /\ fResult.insight.market_cap = 7

\* C36: check_limit honours the limit and the window it is given, whatever
\* their value: with limit 0 every call is rejected and no timestamp is
\* recorded, a rejection reports the given window, and the settings are used
\* only for an argument that was left out.
C36_HonoursArguments ==
    /\ argLimit = 0 =>
          \A i \in Identities :
              /\ requests[i] = <<>>
              /\ \A k \in 1..Len(callLog[i]) : callLog[i][k].status = 429
    /\ \A i \in Identities : \A k \in 1..Len(callLog[i]) :
          callLog[i][k].status = 429
              => callLog[i][k].retryAfter = ToString(GivenWindow)
    /\ \A i \in Identities : \A e \in 0..MaxTime :
          Cardinality(AdmittedIn(i, e)) <= GivenLimit

\* admissions of the authenticated identity, of any endpoint, that lie
\* inside the window ending now
AdmissionsInWindow ==
    Cardinality({j \in 1..Len(requests[api_token]) :
                    requests[api_token][j] > now - rate_limit_window_seconds})

\* the step handles an authenticated request to the endpoint
AuthenticatedStep(endpoint) ==
    /\ requests' # requests \/ resp' # resp
    /\ resp'.endpoint = endpoint
    /\ resp'.authenticated

\* C37: the limiter keeps one list per identity for all endpoints: with k
\* admissions of any kind inside the window, a POST is admitted iff k is
\* below the create limit and a GET by id iff k is below the by-id limit,
\* and each admission, of either endpoint, adds one to k.
C37_OneBucketAcrossEndpoints ==
    [][/\ AuthenticatedStep("POST") =>
             (resp'.admitted <=> AdmissionsInWindow < rate_limit_requests)
       /\ AuthenticatedStep("GET") =>
             (resp'.admitted <=> AdmissionsInWindow < get_insight_max_calls)
       /\ \A e \in {"POST", "GET"} :
             (AuthenticatedStep(e) /\ resp'.admitted) =>
                 Len(requests'[api_token]) = AdmissionsInWindow + 1]_vars

\* a POST was turned away while the list held more admissions than the
\* create limit allows: the last of them was a GET by id
C37_Witness ==
    /\ resp.endpoint = "POST"
    /\ resp.authenticated
    /\ resp.body.status = 429
    /\ Len(requests[api_token]) = get_insight_max_calls
    /\ get_insight_max_calls > rate_limit_requests

\* the stored timestamps of the authenticated identity that lie inside the
\* window ending now
InWindow ==
    SelectSeq(requests[api_token], LAMBDA ts : ts > now - rate_limit_window_seconds)

\* the step handles a request to a token-protected endpoint that failed
\* authentication
UnauthenticatedStep ==
    /\ resp' # resp
    /\ resp'.endpoint \in {"POST", "GET"}
    /\ ~resp'.authenticated

\* C38: a request that authenticates and is admitted records exactly one
\* timestamp, the time of the request, whatever the handler answers
\* afterwards; the limit is checked before the symbol is validated, so a POST
\* over the limit is answered 429 whatever its symbol; a request that fails
\* authentication records nothing.
C38_QuotaAccounting ==
    [][/\ \A e \in {"POST", "GET"} :
             (AuthenticatedStep(e) /\ resp'.admitted) =>
                 /\ requests'[api_token] = Append(InWindow, now)
                 /\ resp'.body.status \in {200, 400, 404, 500, 503, 504}
       /\ (AuthenticatedStep("POST") /\ AdmissionsInWindow >= rate_limit_requests) =>
             /\ resp'.body.status = 429
             /\ requests'[api_token] = InWindow
       /\ UnauthenticatedStep =>
             (requests' = requests /\ resp'.body.status = 401)]_vars

\* a POST for a symbol outside the whitelist was answered 429, not 400, and
\* left the full list as it was
C38_Witness ==
    /\ resp.endpoint = "POST"
    /\ resp.authenticated
    /\ ~ValidateSymbol(resp.asked).ok
    /\ resp.body.status = 429
    /\ Len(requests[api_token]) >= rate_limit_requests

\* C40: the connection is made once, at construction, and never again: the
\* cache object keeps the connection it started with, and one whose
\* connection failed answers every get and get_by_request_id with a miss,
\* every set and delete with False, every health_check with False (reported
\* as "degraded") and changes nothing on the server, also when the server has
\* become reachable.
C40_NoReconnection ==
    [][/\ redisConn' = redisConn
       /\ (~redisConn /\ cacheOp' # cacheOp) =>
             /\ ~cacheOp'.found /\ ~cacheOp'.hit /\ ~cacheOp'.ok
             /\ cacheOp'.count = 0
             /\ cacheOp'.data = NoPayload
             /\ ~cacheOp'.changed /\ ~cacheOp'.raised
             /\ redis' = redis
             /\ HealthBody(redisConn, TRUE, now).detail = "degraded"]_vars

\* the server is reachable, the object was constructed when it was not, and
\* its health_check has just returned False
C40_Witness ==
    /\ ~redisConn
    /\ backend = "up"
    /\ cacheOp.op = "health_check"
    /\ ~cacheOp.ok

\* ------------------------------------------- claims on concurrent creates
\* what get_by_request_id returns for the id of call c when the server answers
ByIdOf(c) == CacheGetByRequestId(redisConn, redis, creating[c].request_id, now, TRUE)

\* call c has returned 200 after both writes of its set were made
Completed(c) ==
    /\ creating[c].pc = "done"
    /\ creating[c].body.status = 200
    /\ creating[c].stored

====
